---- MODULE Spec2Model ----
(***************************************************************************)
(* Model of ngx_http_healthcheck_module.c: the per-peer ownership          *)
(* protocol between worker processes, the probe life cycle (connect, send, *)
(* receive, parse, finish) and the verdict filter that publishes `down`.   *)
(*                                                                         *)
(* Workers are identified by their pid (1..NWorkers); 0 is "no pid".       *)
(* Time is ngx_current_msec, a global clock advanced by Tick.              *)
(***************************************************************************)
EXTENDS Integers, Sequences, FiniteSets, TLC

VARIABLES
    now,        \* ngx_current_msec
    born,       \* born[w]: the master has started a worker with pid w
    alive,      \* alive[w]: the worker process exists
    quit,       \* quit[w]: ngx_terminate || ngx_exiting || ngx_quit in worker w
    stalled,    \* stalled[w]: w is not running (descheduled, suspended)
    late,       \* late[w]: w has at some time been kept from running a due handler
    pc,         \* pc[w]: "idle", or the position inside try_for_ownership
    cur,        \* cur[w]: the peer whose claim attempt w is inside
    i_own_it,   \* i_own_it[w]: the local of try_for_ownership
    shm,        \* shm[p]: ngx_http_healthchecks_shm[p]
    stat,       \* stat[w][p]: ngx_http_healthchecks[p] of worker w
    net,        \* net[w][p]: what the peer sends on w's connection, and how much was received
    conf,       \* conf[p]: the upstream configuration of peer p, and what the peer answers
    hist,       \* hist[p]: the probes of peer p that were finished (the last terminal
                \* state, and whether each of the latest ones was bad)
    asked       \* <<index, value>> while a caller holds the value is_down(index)
                \* returned to it, <<>> otherwise

vars == <<now, born, alive, quit, stalled, late, pc, cur, i_own_it, shm, stat, net, conf, hist,
          asked>>

----------------------------------------------------------------------------
(* Bounds of the model. *)

NWorkers == 2
Horizon == 7
SendLen == 2
MaxTail == 3
DieBy == 1

(* Configuration values (directives healthcheck_delay, _timeout, _failcount, *)
(* _buffer). *)
health_delay == 1
health_timeout == 1
health_failcount == 2
health_buffersize == 10

----------------------------------------------------------------------------
(* ngx_http_health_state *)

NGX_HEALTH_UNINIT_STATE == "UNINIT_STATE"
NGX_HEALTH_WAITING == "WAITING"
NGX_HEALTH_SENDING_CHECK == "SENDING_CHECK"
NGX_HEALTH_READING_STAT_LINE == "READING_STAT_LINE"
NGX_HEALTH_READING_STAT_CODE == "READING_STAT_CODE"
NGX_HEALTH_READING_HEADER == "READING_HEADER"
NGX_HEALTH_HEADER_ALMOST_DONE == "HEADER_ALMOST_DONE"
NGX_HEALTH_READING_BODY == "READING_BODY"
NGX_HEALTH_OK == "OK"
NGX_HEALTH_BAD_HEADER == "BAD_HEADER"
NGX_HEALTH_BAD_STATUS == "BAD_STATUS"
NGX_HEALTH_BAD_BODY == "BAD_BODY"
NGX_HEALTH_BAD_STATE == "BAD_STATE"
NGX_HEALTH_BAD_CONN == "BAD_CONN"
NGX_HEALTH_BAD_CODE == "BAD_CODE"
NGX_HEALTH_TIMEOUT == "TIMEOUT"
NGX_HEALTH_FULL_BUFFER == "FULL_BUFFER"

InProgressStates ==
    {NGX_HEALTH_UNINIT_STATE, NGX_HEALTH_WAITING, NGX_HEALTH_SENDING_CHECK,
     NGX_HEALTH_READING_STAT_LINE, NGX_HEALTH_READING_STAT_CODE,
     NGX_HEALTH_READING_HEADER, NGX_HEALTH_HEADER_ALMOST_DONE,
     NGX_HEALTH_READING_BODY}

FinalStates ==
    {NGX_HEALTH_OK, NGX_HEALTH_BAD_HEADER, NGX_HEALTH_BAD_STATUS,
     NGX_HEALTH_BAD_BODY, NGX_HEALTH_BAD_STATE, NGX_HEALTH_BAD_CONN,
     NGX_HEALTH_BAD_CODE, NGX_HEALTH_TIMEOUT, NGX_HEALTH_FULL_BUFFER}

(* Return codes of process_recv. *)
NGX_OK == "NGX_OK"
NGX_ERROR == "NGX_ERROR"
NGX_AGAIN == "NGX_AGAIN"

NGX_HTTP_OK == 200

(* Bytes of a response, as their character codes. *)
(* stat_code is an ngx_uint_t: arithmetic on it is modulo 2^width.  The      *)
(* width of the platform (32 or 64) is scaled down to UintBits.             *)
UintBits == 9
UintModulus == 2 ^ UintBits

LF == 10
CR == 13
SP == 32
CH0 == 48
CH2 == 50
CH9 == 57
CHp == 112
CHX == 88

(* A timer that is not set (timer_set == 0). *)
NoTimer == -1
NoVerdict == "none"

(* ngx_pid of nobody: a zeroed owner or lock word. *)
NoPid == 0

----------------------------------------------------------------------------
(* ngx_http_healthcheck_process_recv: the response recognizer.  st is the   *)
(* private entry, whose rbuf holds the bytes received so far (rb->start up  *)
(* to rb->pos); expected is conf->health_expected.                          *)

(* One iteration of the while loop: byte ch in state st.state.  rc is       *)
(* NGX_AGAIN when the loop goes on.                                         *)
process_byte(st, ch, expected) ==
    CASE st.state = NGX_HEALTH_READING_STAT_LINE ->
            IF ch = SP
            THEN [st |-> [st EXCEPT !.state = NGX_HEALTH_READING_STAT_CODE,
                                    !.stat_code = 0],
                  rc |-> NGX_AGAIN]
            ELSE IF ch = CR \/ ch = LF
            THEN [st |-> [st EXCEPT !.state = NGX_HEALTH_BAD_STATUS], rc |-> NGX_ERROR]
            ELSE [st |-> st, rc |-> NGX_AGAIN]
      [] st.state = NGX_HEALTH_READING_STAT_CODE ->
            IF ch = SP
            THEN IF st.stat_code # NGX_HTTP_OK
                 THEN [st |-> [st EXCEPT !.state = NGX_HEALTH_BAD_CODE], rc |-> NGX_ERROR]
                 ELSE [st |-> [st EXCEPT !.state = NGX_HEALTH_READING_HEADER],
                       rc |-> NGX_AGAIN]
            ELSE IF ch < CH0 \/ ch > CH9
            THEN [st |-> [st EXCEPT !.state = NGX_HEALTH_BAD_STATUS], rc |-> NGX_ERROR]
            ELSE [st |-> [st EXCEPT !.stat_code =
                                   (st.stat_code * 10 + (ch - CH0)) % UintModulus],
                  rc |-> NGX_AGAIN]
      [] st.state = NGX_HEALTH_READING_HEADER ->
            IF ch = LF
            THEN [st |-> [st EXCEPT !.state = NGX_HEALTH_HEADER_ALMOST_DONE],
                  rc |-> NGX_AGAIN]
            ELSE [st |-> st, rc |-> NGX_AGAIN]
      [] st.state = NGX_HEALTH_HEADER_ALMOST_DONE ->
            IF ch = LF
            THEN IF expected.unset
                 THEN [st |-> [st EXCEPT !.state = NGX_HEALTH_OK], rc |-> NGX_OK]
                 ELSE [st |-> [st EXCEPT !.state = NGX_HEALTH_READING_BODY],
                       rc |-> NGX_AGAIN]
            ELSE IF ch # CR
            THEN [st |-> [st EXCEPT !.state = NGX_HEALTH_READING_HEADER],
                  rc |-> NGX_AGAIN]
            ELSE [st |-> st, rc |-> NGX_AGAIN]
      [] st.state = NGX_HEALTH_READING_BODY ->
            IF st.body_read_pos = Len(expected.data)
            THEN [st |-> [st EXCEPT !.state = NGX_HEALTH_BAD_BODY], rc |-> NGX_ERROR]
            ELSE IF ch # expected.data[st.body_read_pos + 1]
            THEN [st |-> [st EXCEPT !.state = NGX_HEALTH_BAD_BODY], rc |-> NGX_ERROR]
            ELSE [st |-> [st EXCEPT !.body_read_pos = @ + 1], rc |-> NGX_AGAIN]
      [] OTHER ->
            [st |-> [st EXCEPT !.state = NGX_HEALTH_BAD_STATE], rc |-> NGX_ERROR]

(* A recognizer that takes the rest of the buffer as read once it has its   *)
(* result.                                                                  *)
RECURSIVE process_recv_to_end(_, _)
process_recv_to_end(st, expected) ==
    IF st.read_pos < Len(st.rbuf)
    THEN LET r == process_byte([st EXCEPT !.read_pos = @ + 1],
                               st.rbuf[st.read_pos + 1], expected)
         IN  IF r.rc = NGX_AGAIN THEN process_recv_to_end(r.st, expected)
             ELSE [r EXCEPT !.st.read_pos = Len(st.rbuf)]
    ELSE IF st.state = NGX_HEALTH_READING_BODY
            /\ st.body_read_pos = Len(expected.data)
         THEN [st |-> [st EXCEPT !.state = NGX_HEALTH_OK], rc |-> NGX_OK]
         ELSE IF st.state = NGX_HEALTH_OK
         THEN [st |-> st, rc |-> NGX_OK]
         ELSE [st |-> st, rc |-> NGX_AGAIN]

RECURSIVE process_recv(_, _)
process_recv(st, expected) ==
    IF st.read_pos < Len(st.rbuf)
    THEN LET r == process_byte([st EXCEPT !.read_pos = @ + 1],
                               st.rbuf[st.read_pos + 1], expected)
         IN  IF r.rc = NGX_AGAIN THEN process_recv(r.st, expected) ELSE r
    ELSE IF st.state = NGX_HEALTH_READING_BODY
            /\ st.body_read_pos = Len(expected.data)
         THEN [st |-> [st EXCEPT !.state = NGX_HEALTH_OK], rc |-> NGX_OK]
         ELSE IF st.state = NGX_HEALTH_OK
         THEN [st |-> st, rc |-> NGX_OK]
         ELSE [st |-> st, rc |-> NGX_AGAIN]

----------------------------------------------------------------------------
(* The handlers.  Each takes wt, the worker's private table (stat[w]), and  *)
(* sh, the shared slot of peer p, and yields both as the handler leaves     *)
(* them, with the terminal state given to mark_finished if the handler      *)
(* finished the probe: [wt |-> ..., sh |-> ..., fin |-> ...].  cf is        *)
(* conf[p], q the worker's shutdown flags, t the value of ngx_current_msec. *)

(* ngx_http_healthcheck_clear_events: ngx_del_timer on both events of every *)
(* entry of this worker.                                                    *)
clear_events(wt) ==
    [i \in DOMAIN wt |-> [wt[i] EXCEPT !.health_ev = NoTimer,
                                      !.ownership_ev = NoTimer]]

(* A count that never turns last_down. *)
count_verdict_no_turn(sh, state, t) == [sh EXCEPT !.concurrent = @ + 1]

(* mark_finished, the run of like verdicts: last_down, concurrent, since.   *)
count_verdict(sh, state, t) ==
    IF state = NGX_HEALTH_OK
    THEN IF sh.last_down = 1
         THEN [sh EXCEPT !.last_down = 0, !.concurrent = 1, !.since = t]
         ELSE [sh EXCEPT !.concurrent = @ + 1]
    ELSE IF sh.last_down = 1
         THEN [sh EXCEPT !.concurrent = @ + 1]
         ELSE [sh EXCEPT !.last_down = 1, !.concurrent = 1, !.since = t]

(* A filter that publishes every verdict. *)
publish_down_always(sh, cf) == [sh EXCEPT !.down = sh.last_down]

(* A filter that publishes one probe early. *)
publish_down_early(sh, cf) ==
    IF sh.concurrent >= cf.health_failcount - 1
    THEN [sh EXCEPT !.down = sh.last_down]
    ELSE sh

(* mark_finished, the filter: down follows last_down once the run is        *)
(* health_failcount long.                                                   *)
publish_down(sh, cf) ==
    IF sh.concurrent >= cf.health_failcount
    THEN [sh EXCEPT !.down = sh.last_down]
    ELSE sh

(* A mark_finished that runs the count of the verdict twice. *)
mark_finished_counts_twice(wt, sh, p, cf, q, t) ==
    LET st  == wt[p]
        sh2 == publish_down(count_verdict(count_verdict(sh, st.state, t),
                                          st.state, t), cf)
        sh3 == [sh2 EXCEPT !.down_code = st.state]
        wt1 == [wt EXCEPT ![p] = [st EXCEPT !.conn = FALSE, !.read_ev = NoTimer,
                                            !.state = NGX_HEALTH_WAITING]]
        wt2 == IF ~q
               THEN [wt1 EXCEPT ![p].health_ev = t + cf.health_delay]
               ELSE clear_events(wt1)
    IN  [wt |-> wt2, sh |-> [sh3 EXCEPT !.action_time = t], fin |-> st.state]

(* A mark_finished that arms health_ev whatever the shutdown flags say. *)
mark_finished_rearm(wt, sh, p, cf, q, t) ==
    LET st  == wt[p]
        sh2 == publish_down(count_verdict(sh, st.state, t), cf)
        sh3 == [sh2 EXCEPT !.down_code = st.state]
        wt1 == [wt EXCEPT ![p] = [st EXCEPT !.conn = FALSE, !.read_ev = NoTimer,
                                            !.state = NGX_HEALTH_WAITING]]
    IN  [wt |-> [wt1 EXCEPT ![p].health_ev = t + cf.health_delay],
         sh |-> [sh3 EXCEPT !.action_time = t], fin |-> st.state]

(* ngx_http_healthcheck_mark_finished, entered with wt[p].state terminal.   *)
(* ngx_close_connection also removes the connection's read timer.           *)
mark_finished(wt, sh, p, cf, q, t) ==
    LET st  == wt[p]
        sh2 == publish_down(count_verdict(sh, st.state, t), cf)
        sh3 == [sh2 EXCEPT !.down_code = st.state]
        wt1 == [wt EXCEPT ![p] = [st EXCEPT !.conn = FALSE, !.read_ev = NoTimer,
                                            !.state = NGX_HEALTH_WAITING]]
        wt2 == IF ~q
               THEN [wt1 EXCEPT ![p].health_ev = t + cf.health_delay]
               ELSE clear_events(wt1)
    IN  [wt |-> wt2, sh |-> [sh3 EXCEPT !.action_time = t], fin |-> st.state]

(* A write handler without the branch for NGX_AGAIN (-2): the value is     *)
(* added to send_pos like a byte count.                                     *)
write_handler_counts_again(wt, sh, p, cf, q, t, snd) ==
    LET st == wt[p] IN
    IF st.state # NGX_HEALTH_SENDING_CHECK
    THEN [wt |-> wt, sh |-> sh, fin |-> NoVerdict]
    ELSE LET st1 == [st EXCEPT !.send_pos =
                        IF snd.end = "again" THEN @ + snd.n - 2 ELSE @ + snd.n]
             sh1 == [sh EXCEPT !.action_time = t]
         IN  IF snd.end = "error"
             THEN LET f == mark_finished(
                               [wt EXCEPT ![p] = [st1 EXCEPT !.state = NGX_HEALTH_BAD_CONN]],
                               sh1, p, cf, q, t)
                  IN  [wt |-> f.wt, sh |-> [f.sh EXCEPT !.action_time = t],
                       fin |-> f.fin]
             ELSE IF st1.send_pos = cf.health_send_len
             THEN [wt |-> [wt EXCEPT ![p] =
                             [st1 EXCEPT !.state = NGX_HEALTH_READING_STAT_LINE]],
                   sh |-> sh1, fin |-> NoVerdict]
             ELSE [wt |-> [wt EXCEPT ![p] = st1], sh |-> sh1, fin |-> NoVerdict]

(* A write handler that does not look at the state before it sends. *)
write_handler_any_state(wt, sh, p, cf, q, t, snd) ==
    LET st  == wt[p]
        st1 == [st EXCEPT !.send_pos = @ + snd.n]
        sh1 == IF snd.n > 0 THEN [sh EXCEPT !.action_time = t] ELSE sh
    IN  IF snd.end = "error"
        THEN LET f == mark_finished(
                          [wt EXCEPT ![p] = [st1 EXCEPT !.state = NGX_HEALTH_BAD_CONN]],
                          sh1, p, cf, q, t)
             IN  [wt |-> f.wt, sh |-> [f.sh EXCEPT !.action_time = t],
                  fin |-> f.fin]
        ELSE IF st1.send_pos = cf.health_send_len
        THEN [wt |-> [wt EXCEPT ![p] =
                        [st1 EXCEPT !.state = NGX_HEALTH_READING_STAT_LINE]],
              sh |-> sh1, fin |-> NoVerdict]
        ELSE [wt |-> [wt EXCEPT ![p] = st1], sh |-> sh1, fin |-> NoVerdict]

(* ngx_http_healthcheck_write_handler.  The do-while loop calls c->send     *)
(* until the payload is out, or a call returns NGX_AGAIN, NGX_ERROR or 0:   *)
(* snd.n is the number of bytes the calls before that one accepted, snd.end *)
(* how the loop ended ("full", "again" or "error").                         *)
write_handler(wt, sh, p, cf, q, t, snd) ==
    LET st == wt[p] IN
    IF st.state # NGX_HEALTH_SENDING_CHECK
    THEN [wt |-> wt, sh |-> sh, fin |-> NoVerdict]
    ELSE LET st1 == [st EXCEPT !.send_pos = @ + snd.n]
             sh1 == IF snd.n > 0 THEN [sh EXCEPT !.action_time = t] ELSE sh
         IN  IF snd.end = "error"
             THEN LET f == mark_finished(
                               [wt EXCEPT ![p] = [st1 EXCEPT !.state = NGX_HEALTH_BAD_CONN]],
                               sh1, p, cf, q, t)
                  IN  [wt |-> f.wt, sh |-> [f.sh EXCEPT !.action_time = t],
                       fin |-> f.fin]
             ELSE IF st1.send_pos = cf.health_send_len
             THEN [wt |-> [wt EXCEPT ![p] =
                             [st1 EXCEPT !.state = NGX_HEALTH_READING_STAT_LINE]],
                   sh |-> sh1, fin |-> NoVerdict]
             ELSE [wt |-> [wt EXCEPT ![p] = st1], sh |-> sh1, fin |-> NoVerdict]

(* A test that lets the probe live one millisecond longer. *)
timed_out_late(st, cf, t) == t - st.check_start_time > cf.health_timeout

(* The first test of the read handler: the probe began health_timeout ago   *)
(* or earlier.                                                              *)
timed_out(st, cf, t) == t - st.check_start_time >= cf.health_timeout

(* A read handler that looks at the room left in the buffer before it asks  *)
(* the recognizer.                                                          *)
read_handler_full_first(wt, sh, p, cf, q, t, rcv) ==
    LET st  == wt[p]
        sh1 == [sh EXCEPT !.action_time = t]
    IN
    IF timed_out(st, cf, t)
    THEN mark_finished([wt EXCEPT ![p].state = NGX_HEALTH_TIMEOUT], sh1, p, cf, q, t)
    ELSE LET st1 == IF rcv.kind \in {"error", "zero"}
                    THEN [st EXCEPT !.state = NGX_HEALTH_BAD_CONN]
                    ELSE IF rcv.kind = "data"
                    THEN [st EXCEPT !.rbuf = @ \o rcv.bytes]
                    ELSE st
         IN  IF st1.state = NGX_HEALTH_BAD_CONN
             THEN mark_finished([wt EXCEPT ![p] = st1], sh1, p, cf, q, t)
             ELSE IF Len(st1.rbuf) = cf.health_buffersize
             THEN mark_finished(
                      [wt EXCEPT ![p] = [st1 EXCEPT !.state = NGX_HEALTH_FULL_BUFFER]],
                      sh1, p, cf, q, t)
             ELSE LET r == process_recv(st1, cf.health_expected) IN
                  IF r.rc = NGX_AGAIN
                  THEN [wt |-> [wt EXCEPT ![p] = r.st], sh |-> sh1, fin |-> NoVerdict]
                  ELSE mark_finished([wt EXCEPT ![p] = r.st], sh1, p, cf, q, t)

(* ngx_http_healthcheck_read_handler.  The loop condition rb->end < rb->pos *)
(* is never true, so c->recv is called once: rcv.kind is "data" (rcv.bytes  *)
(* appended at rb->pos), "again", "zero" or "error".                        *)
read_handler(wt, sh, p, cf, q, t, rcv) ==
    LET st  == wt[p]
        sh1 == [sh EXCEPT !.action_time = t]
    IN
    IF timed_out(st, cf, t)
    THEN mark_finished([wt EXCEPT ![p].state = NGX_HEALTH_TIMEOUT], sh1, p, cf, q, t)
    ELSE LET st1 == IF rcv.kind \in {"error", "zero"}
                    THEN [st EXCEPT !.state = NGX_HEALTH_BAD_CONN]
                    ELSE IF rcv.kind = "data"
                    THEN [st EXCEPT !.rbuf = @ \o rcv.bytes]
                    ELSE st
         IN  IF st1.state # NGX_HEALTH_BAD_CONN
             THEN LET r == process_recv(st1, cf.health_expected) IN
                  IF r.rc = NGX_AGAIN
                  THEN IF Len(r.st.rbuf) = cf.health_buffersize
                       THEN mark_finished(
                                [wt EXCEPT ![p] =
                                    [r.st EXCEPT !.state = NGX_HEALTH_FULL_BUFFER]],
                                sh1, p, cf, q, t)
                       ELSE [wt |-> [wt EXCEPT ![p] = r.st], sh |-> sh1,
                             fin |-> NoVerdict]
                  ELSE mark_finished([wt EXCEPT ![p] = r.st], sh1, p, cf, q, t)
             ELSE mark_finished([wt EXCEPT ![p] = st1], sh1, p, cf, q, t)

(* A begin_healthcheck that arms no timer on the connection's read event. *)
begin_healthcheck_no_timer(wt, sh, p, cf, t) ==
    [wt |-> [wt EXCEPT ![p] = [@ EXCEPT !.conn = TRUE,
                                        !.health_ev = NoTimer,
                                        !.state = NGX_HEALTH_SENDING_CHECK,
                                        !.read_pos = 0,
                                        !.send_pos = 0,
                                        !.body_read_pos = 0,
                                        !.rbuf = <<>>,
                                        !.check_start_time = t]],
     sh |-> [sh EXCEPT !.action_time = t]]

(* A begin_healthcheck that arms health_ev again for the next probe, as a   *)
(* periodic timer would.                                                    *)
begin_healthcheck_rearm(wt, sh, p, cf, t) ==
    [wt |-> [wt EXCEPT ![p] = [@ EXCEPT !.conn = TRUE,
                                        !.health_ev = t + cf.health_delay,
                                        !.state = NGX_HEALTH_SENDING_CHECK,
                                        !.read_pos = 0,
                                        !.send_pos = 0,
                                        !.body_read_pos = 0,
                                        !.rbuf = <<>>,
                                        !.check_start_time = t,
                                        !.read_ev = t + cf.health_timeout]],
     sh |-> [sh EXCEPT !.action_time = t]]

(* ngx_http_healthcheck_begin_healthcheck, when ngx_event_connect_peer      *)
(* leaves a connection in pc->connection.                                   *)
begin_healthcheck(wt, sh, p, cf, t) ==
    [wt |-> [wt EXCEPT ![p] = [@ EXCEPT !.conn = TRUE,
                                        !.health_ev = NoTimer,
                                        !.state = NGX_HEALTH_SENDING_CHECK,
                                        !.read_pos = 0,
                                        !.send_pos = 0,
                                        !.body_read_pos = 0,
                                        !.rbuf = <<>>,
                                        !.check_start_time = t,
                                        !.read_ev = t + cf.health_timeout]],
     sh |-> [sh EXCEPT !.action_time = t]]

(* A deadline that ignores the factor 3 and the timeout. *)
StaleAfter_delay_only(cf) == cf.health_delay

(* The staleness deadline of try_for_ownership. *)
StaleAfter(cf) == (cf.health_delay + cf.health_timeout) * 3

(* A critical section that takes the slot only when action_time is older   *)
(* than the staleness deadline, not when it is exactly that old.            *)
ownership_body_late(wt, sh, p, cf, w, t) ==
    IF sh.owner = w
    THEN [wt |-> wt, sh |-> [sh EXCEPT !.lock = w], own |-> TRUE]
    ELSE IF t - sh.action_time > StaleAfter(cf)
    THEN [wt |-> [wt EXCEPT ![p] = [@ EXCEPT !.state = NGX_HEALTH_WAITING,
                                             !.health_ev = t + cf.health_delay]],
          sh |-> [sh EXCEPT !.lock = w, !.owner = w, !.action_time = t],
          own |-> TRUE]
    ELSE [wt |-> wt, sh |-> [sh EXCEPT !.lock = w], own |-> FALSE]

(* try_for_ownership between ngx_spinlock and the release of the lock, run  *)
(* by pid w that just took the lock: own is i_own_it.                       *)
ownership_body(wt, sh, p, cf, w, t) ==
    IF sh.owner = w
    THEN [wt |-> wt, sh |-> [sh EXCEPT !.lock = w], own |-> TRUE]
    ELSE IF t - sh.action_time >= StaleAfter(cf)
    THEN [wt |-> [wt EXCEPT ![p] = [@ EXCEPT !.state = NGX_HEALTH_WAITING,
                                             !.health_ev = t + cf.health_delay]],
          sh |-> [sh EXCEPT !.lock = w, !.owner = w, !.action_time = t],
          own |-> TRUE]
    ELSE [wt |-> wt, sh |-> [sh EXCEPT !.lock = w], own |-> FALSE]

(* A release that arms no retry timer. *)
ownership_release_no_retry(wt, sh, p, cf, own, t) ==
    [wt |-> wt, sh |-> [sh EXCEPT !.lock = NoPid]]

(* The release: ngx_atomic_cmp_set(&lock, ngx_pid, 0), and lock = 0 when it *)
(* fails; then the retry timer of a worker that does not own the peer.      *)
ownership_release(wt, sh, p, cf, own, t) ==
    [wt |-> IF own THEN wt
            ELSE [wt EXCEPT ![p].ownership_ev = t + cf.health_delay * 10],
     sh |-> [sh EXCEPT !.lock = NoPid]]

----------------------------------------------------------------------------
(* The state after ngx_http_healthcheck_init_zone and, in every worker,     *)
(* ngx_http_healthcheck_procinit.                                           *)

Workers == DOMAIN alive
Peers == DOMAIN shm

(* A slot of the zeroed shared zone after init_zone. *)
ShmInit(t) ==
    [owner |-> NoPid, action_time |-> 0, concurrent |-> 0, since |-> t,
     last_down |-> 0, down_code |-> NGX_HEALTH_UNINIT_STATE, lock |-> NoPid,
     down |-> 0]

(* A private entry before procinit arms its ownership_ev. *)
StatInit ==
    [state |-> NGX_HEALTH_UNINIT_STATE, conn |-> FALSE, check_start_time |-> 0,
     health_ev |-> NoTimer, ownership_ev |-> NoTimer, read_ev |-> NoTimer,
     rbuf |-> <<>>, read_pos |-> 0, body_read_pos |-> 0, send_pos |-> 0,
     stat_code |-> 0]

NetInit == [data |-> <<>>, off |-> 0]

(* No probe of the peer was finished yet. *)
HistInit == [last |-> NoVerdict, bad |-> <<>>]

(* The record of the finished probes after a handler that gave terminal    *)
(* state fin to mark_finished: the latest health_failcount verdicts are     *)
(* kept, the newest last.                                                   *)
Keep(cf) == IF cf.health_failcount > 1 THEN cf.health_failcount ELSE 1

Note(h, fin, cf) ==
    IF fin = NoVerdict THEN h
    ELSE LET all == Append(h.bad, fin # NGX_HEALTH_OK)
         IN  [last |-> fin,
              bad  |-> IF Len(all) > Keep(cf) THEN Tail(all) ELSE all]

(* What the peer may answer on one connection: nothing, a 200 response     *)
(* with the expected body, or a response with another status code.         *)
RespOK == <<SP, CH2, CH0, CH0, SP, LF, LF, CHp>>
Answers == {<<>>, RespOK, <<SP, CH2, SP>>}

(* The upstream configuration used by the protocol specification. *)
ConfInit ==
    [health_delay |-> health_delay, health_timeout |-> health_timeout,
     health_failcount |-> health_failcount, health_send_len |-> SendLen,
     health_expected |-> [unset |-> FALSE, data |-> <<CHp>>],
     health_buffersize |-> health_buffersize, healthcheck_enabled |-> TRUE,
     answers |-> Answers]

(* The same upstream, with a request of one byte and a peer that accepts    *)
(* the connection and sends nothing.                                        *)
ConfSilent == [ConfInit EXCEPT !.health_send_len = 1, !.answers = {<<>>}]

(* ngx_current_msec counts milliseconds of wall-clock time: when the        *)
(* workers start it is already past the staleness deadline of a zeroed      *)
(* action_time.                                                             *)
StartTime == StaleAfter(ConfInit)
MaxTime == StartTime + Horizon


(* ngx_http_healthcheck_procinit of a worker started at time t: the first   *)
(* claim attempt of each peer is due after phase[p] = ngx_random() % delay. *)
procinit(cfs, t, phase) ==
    [p \in DOMAIN cfs |->
        IF cfs[p].healthcheck_enabled
        THEN [StatInit EXCEPT !.ownership_ev = t + phase[p]]
        ELSE StatInit]

Phases(cfs) ==
    {ph \in [DOMAIN cfs -> 0..(health_delay - 1)] :
        \A p \in DOMAIN cfs : ph[p] < cfs[p].health_delay}

(* The state once the master has started the first of the workers `pids`   *)
(* (the others are started later), for peers configured as cfs.             *)
InitWith(pids, cfs) ==
    /\ now = StartTime
    /\ born = [w \in pids |-> w = 1]
    /\ alive = [w \in pids |-> w = 1]
    /\ quit = [w \in pids |-> FALSE]
    /\ stalled = [w \in pids |-> FALSE]
    /\ late = [w \in pids |-> FALSE]
    /\ pc = [w \in pids |-> "idle"]
    /\ cur = [w \in pids |-> 0]
    /\ i_own_it = [w \in pids |-> FALSE]
    /\ shm = [p \in DOMAIN cfs |-> ShmInit(StartTime)]
    /\ conf = cfs
    /\ hist = [p \in DOMAIN cfs |-> HistInit]
    /\ asked = <<>>
    /\ \E phase \in Phases(cfs) :
          stat = [w \in pids |->
                    IF w = 1 THEN procinit(cfs, StartTime, phase)
                    ELSE [p \in DOMAIN cfs |-> StatInit]]
    /\ net = [w \in pids |-> [p \in DOMAIN cfs |-> NetInit]]

(* The protocol between NWorkers workers, for one peer that does not answer *)
(* (its probes end by a closed connection, an error or the timeout).        *)
Init == InitWith(1..NWorkers, [p \in {1} |-> ConfSilent])

(* The probes of one worker, for one peer that answers. *)
InitProbe == InitWith({1}, [p \in {1} |-> ConfInit])

----------------------------------------------------------------------------
(* The steps of a worker's event loop. *)

Due(timer) == timer # NoTimer /\ timer <= now

Running(w) == alive[w] /\ ~stalled[w]

Idle(w) == Running(w) /\ pc[w] = "idle"

(* Between probes the cursors, the buffer, the status code and the start    *)
(* time of the finished probe are dead: begin_healthcheck and the           *)
(* recognizer overwrite each of them before reading it, and no handler of a *)
(* closed connection runs.  The model does not tell such entries apart: an  *)
(* entry without a connection holds the initial values in these fields.     *)
Forget(wt) ==
    [i \in DOMAIN wt |->
        IF wt[i].conn THEN wt[i]
        ELSE [wt[i] EXCEPT !.rbuf = <<>>, !.read_pos = 0, !.body_read_pos = 0,
                           !.send_pos = 0, !.stat_code = 0,
                           !.check_start_time = 0]]

(* What is left of the peer's answer once the connection is closed. *)
Unplug(nt, wt) == [i \in DOMAIN nt |-> IF wt[i].conn THEN nt[i] ELSE NetInit]

(* ownership_ev expires: try_for_ownership up to ngx_spinlock. *)
ClaimFire(w, p) ==
    /\ Idle(w)
    /\ Due(stat[w][p].ownership_ev)
    /\ IF quit[w]
       THEN /\ stat' = [stat EXCEPT ![w] = clear_events(@)]
            /\ UNCHANGED <<pc, cur>>
       ELSE /\ stat' = [stat EXCEPT ![w][p].ownership_ev = NoTimer]
            /\ pc' = [pc EXCEPT ![w] = "spin"]
            /\ cur' = [cur EXCEPT ![w] = p]
    /\ UNCHANGED <<now, born, alive, quit, stalled, late, i_own_it, shm, net, conf, asked, hist>>

(* An entry into the critical section that does not wait for the lock. *)
ClaimLock_no_wait(w) ==
    /\ Running(w)
    /\ pc[w] = "spin"
    /\ LET p == cur[w]
           r == ownership_body(stat[w], shm[p], p, conf[p], w, now)
       IN  /\ stat' = [stat EXCEPT ![w] = r.wt]
           /\ shm' = [shm EXCEPT ![p] = r.sh]
           /\ i_own_it' = [i_own_it EXCEPT ![w] = r.own]
    /\ pc' = [pc EXCEPT ![w] = "locked"]
    /\ UNCHANGED <<now, born, alive, quit, stalled, late, cur, net, conf, asked, hist>>

(* ngx_spinlock succeeds (the lock word was 0) and the critical section runs. *)
ClaimLock(w) ==
    /\ Running(w)
    /\ pc[w] = "spin"
    /\ shm[cur[w]].lock = NoPid
    /\ LET p == cur[w]
           r == ownership_body(stat[w], shm[p], p, conf[p], w, now)
       IN  /\ stat' = [stat EXCEPT ![w] = r.wt]
           /\ shm' = [shm EXCEPT ![p] = r.sh]
           /\ i_own_it' = [i_own_it EXCEPT ![w] = r.own]
    /\ pc' = [pc EXCEPT ![w] = "locked"]
    /\ UNCHANGED <<now, born, alive, quit, stalled, late, cur, net, conf, asked, hist>>

(* The lock is released and the handler returns. *)
ClaimUnlock(w) ==
    /\ Running(w)
    /\ pc[w] = "locked"
    /\ LET p == cur[w]
           r == ownership_release(stat[w], shm[p], p, conf[p], i_own_it[w], now)
       IN  /\ stat' = [stat EXCEPT ![w] = r.wt]
           /\ shm' = [shm EXCEPT ![p] = r.sh]
    /\ pc' = [pc EXCEPT ![w] = "idle"]
    /\ cur' = [cur EXCEPT ![w] = 0]
    /\ i_own_it' = [i_own_it EXCEPT ![w] = FALSE]
    /\ UNCHANGED <<now, born, alive, quit, stalled, late, net, conf, asked, hist>>

(* health_ev expires: begin_healthcheck; the peer will answer resp. *)
BeginProbe(w, p) ==
    /\ Idle(w)
    /\ Due(stat[w][p].health_ev)
    /\ \E resp \in conf[p].answers :
          LET r == begin_healthcheck(stat[w], shm[p], p, conf[p], now)
          IN  /\ stat' = [stat EXCEPT ![w] = r.wt]
              /\ shm' = [shm EXCEPT ![p] = r.sh]
              /\ net' = [net EXCEPT ![w][p] = [data |-> resp, off |-> 0]]
    /\ UNCHANGED <<now, born, alive, quit, stalled, late, pc, cur, i_own_it, conf, asked, hist>>

(* The worker's process ends: it is killed, exits, or crashes. *)
Exit(w) ==
    /\ alive' = [alive EXCEPT ![w] = FALSE]
    /\ stat' = [stat EXCEPT ![w] = [p \in Peers |-> StatInit]]
    /\ net' = [net EXCEPT ![w] = [p \in Peers |-> NetInit]]
    /\ pc' = [pc EXCEPT ![w] = "idle"]
    /\ cur' = [cur EXCEPT ![w] = 0]
    /\ i_own_it' = [i_own_it EXCEPT ![w] = FALSE]
    /\ quit' = [quit EXCEPT ![w] = FALSE]
    /\ stalled' = [stalled EXCEPT ![w] = FALSE]
    /\ late' = [late EXCEPT ![w] = FALSE]

Gone(w) ==
    /\ Exit(w)
    /\ UNCHANGED <<now, born, shm, conf, asked, hist>>

(* health_ev expires and ngx_event_connect_peer leaves pc->connection NULL: *)
(* begin_healthcheck dereferences it and the worker crashes.                *)
BeginProbeCrash(w, p) ==
    /\ Idle(w)
    /\ Due(stat[w][p].health_ev)
    /\ Gone(w)

(* The results c->send may give one call of the write handler. *)
SendResults(st, cf) ==
    IF st.state # NGX_HEALTH_SENDING_CHECK
    THEN {[n |-> 0, end |-> "again"]}
    ELSE LET left == cf.health_send_len - st.send_pos
         IN  {[n |-> left, end |-> "full"]}
             \cup {[n |-> k, end |-> e] : k \in 0..(left - 1), e \in {"again", "error"}}

(* A writable notification on the probe's connection. *)
WriteReady(w, p) ==
    /\ Idle(w)
    /\ stat[w][p].conn
    /\ \E snd \in SendResults(stat[w][p], conf[p]) :
          LET r == write_handler(stat[w], shm[p], p, conf[p], quit[w], now, snd)
          IN  /\ stat' = [stat EXCEPT ![w] = Forget(r.wt)]
              /\ shm' = [shm EXCEPT ![p] = r.sh]
              /\ net' = [net EXCEPT ![w] = Unplug(@, r.wt)]
              /\ hist' = [hist EXCEPT ![p] = Note(@, r.fin, conf[p])]
    /\ UNCHANGED <<now, born, alive, quit, stalled, late, pc, cur, i_own_it, conf, asked>>

(* The results c->recv may give: a chunk of what the peer still sends, as   *)
(* far as the buffer has room; nothing yet; the peer's close once it sent   *)
(* everything (or a read of size 0); an error.                              *)
RecvData(st, cf, n) ==
    LET room == cf.health_buffersize - Len(st.rbuf)
        left == Len(n.data) - n.off
        most == IF room < left THEN room ELSE left
    IN  {[kind |-> "data", bytes |-> SubSeq(n.data, n.off + 1, n.off + k)] : k \in 1..most}

RecvEnd(st, cf, n) ==
    IF n.off = Len(n.data) \/ Len(st.rbuf) = cf.health_buffersize
    THEN {[kind |-> "zero", bytes |-> <<>>]}
    ELSE {}

RecvOther == {[kind |-> k, bytes |-> <<>>] : k \in {"again", "error"}}

(* The read handler called with result rcv of c->recv. *)
Read(w, p, rcv) ==
    /\ Idle(w)
    /\ stat[w][p].conn
    /\ LET r == read_handler(stat[w], shm[p], p, conf[p], quit[w], now, rcv)
           timedout == timed_out(stat[w][p], conf[p], now)
       IN  /\ stat' = [stat EXCEPT ![w] = Forget(r.wt)]
           /\ shm' = [shm EXCEPT ![p] = r.sh]
           /\ net' = [net EXCEPT ![w] =
                        Unplug(IF timedout THEN @
                               ELSE [@ EXCEPT ![p].off = @ + Len(rcv.bytes)], r.wt)]
           /\ hist' = [hist EXCEPT ![p] = Note(@, r.fin, conf[p])]
    /\ UNCHANGED <<now, born, alive, quit, stalled, late, pc, cur, i_own_it, conf, asked>>

(* A readable notification on the probe's connection. *)
ReadReady(w, p) ==
    /\ \E rcv \in RecvData(stat[w][p], conf[p], net[w][p])
                  \cup RecvEnd(stat[w][p], conf[p], net[w][p]) \cup RecvOther :
          Read(w, p, rcv)

(* The read timer armed by begin_healthcheck expires: the event loop calls  *)
(* the read handler.                                                        *)
ReadTimer(w, p) ==
    /\ Due(stat[w][p].read_ev)
    /\ Read(w, p, [kind |-> "again", bytes |-> <<>>])

(* A handler run after a shutdown signal reaches clear_events, which calls  *)
(* ngx_del_timer on both events of every peer, set or not: the event whose  *)
(* expiry runs try_for_ownership, and the health_ev of a probe that         *)
(* mark_finished closes, are not set.  Deleting a timer that is not in the  *)
(* timer tree is undefined; the handlers above give the outcome in which it *)
(* does nothing, this action the outcome in which the worker crashes:       *)
(* mark_finished has written the slot but not yet its last action_time.     *)
ClearEventsCrash(w, p) ==
    /\ Idle(w)
    /\ quit[w]
    /\ \/ /\ Due(stat[w][p].ownership_ev)
          /\ Gone(w)
       \/ /\ stat[w][p].conn
          /\ \E snd \in SendResults(stat[w][p], conf[p]) :
                LET r == write_handler(stat[w], shm[p], p, conf[p], TRUE, now, snd)
                    before == IF snd.n > 0 THEN now ELSE shm[p].action_time
                IN  /\ r.fin # NoVerdict
                    /\ shm' = [shm EXCEPT ![p] = [r.sh EXCEPT !.action_time = before]]
                    /\ hist' = [hist EXCEPT ![p] = Note(@, r.fin, conf[p])]
          /\ Exit(w)
          /\ UNCHANGED <<now, born, conf, asked>>
       \/ /\ stat[w][p].conn
          /\ \E rcv \in RecvData(stat[w][p], conf[p], net[w][p])
                        \cup RecvEnd(stat[w][p], conf[p], net[w][p]) \cup RecvOther :
                LET r == read_handler(stat[w], shm[p], p, conf[p], TRUE, now, rcv)
                IN  /\ r.fin # NoVerdict
                    /\ shm' = [shm EXCEPT ![p] = r.sh]
                    /\ hist' = [hist EXCEPT ![p] = Note(@, r.fin, conf[p])]
          /\ Exit(w)
          /\ UNCHANGED <<now, born, conf, asked>>

(* The master starts a worker process with a pid not used before (at       *)
(* start-up, after a reload, or in place of a worker that died): procinit.  *)
Spawn(w) ==
    /\ ~born[w]
    /\ \A v \in Workers : v < w => born[v]
    /\ born' = [born EXCEPT ![w] = TRUE]
    /\ alive' = [alive EXCEPT ![w] = TRUE]
    /\ \E phase \in Phases(conf) :
          stat' = [stat EXCEPT ![w] = procinit(conf, now, phase)]
    /\ UNCHANGED <<now, quit, stalled, late, pc, cur, i_own_it, shm, net, conf, asked, hist>>

(* A terminate, exit or quit signal reaches the worker. *)
Shutdown(w) ==
    /\ Running(w)
    /\ ~quit[w]
    /\ quit' = [quit EXCEPT ![w] = TRUE]
    /\ UNCHANGED <<now, born, alive, stalled, late, pc, cur, i_own_it, shm, stat, net, conf, asked, hist>>

Die(w) ==
    /\ alive[w]
    /\ Gone(w)

(* Worker w has a handler to run now: a due timer, or a claim attempt that  *)
(* can go on.                                                               *)
MustRun(w) ==
    \/ pc[w] = "locked"
    \/ pc[w] = "spin" /\ shm[cur[w]].lock = NoPid
    \/ /\ pc[w] = "idle"
       /\ \E p \in Peers : \/ Due(stat[w][p].ownership_ev)
                           \/ Due(stat[w][p].health_ev)
                           \/ Due(stat[w][p].read_ev)

(* The worker stops running for a while (it is descheduled or suspended):  *)
(* none of its handlers runs and time passes without it.  The model lets a  *)
(* worker that is on schedule be held up; when it runs again it is on       *)
(* schedule again, with late[w] recording that it has been held up.         *)
Stall(w) ==
    /\ Running(w)
    /\ ~late[w]
    /\ stalled' = [stalled EXCEPT ![w] = TRUE]
    /\ late' = [late EXCEPT ![w] = TRUE]
    /\ UNCHANGED <<now, born, alive, quit, pc, cur, i_own_it, shm, stat, net, conf, asked, hist>>

Resume(w) ==
    /\ alive[w]
    /\ stalled[w]
    /\ stalled' = [stalled EXCEPT ![w] = FALSE]
    /\ UNCHANGED <<now, born, alive, quit, late, pc, cur, i_own_it, shm, stat, net, conf, asked, hist>>

(* A millisecond passes.  A running worker has run every handler that was   *)
(* due; one that spins on a lock somebody keeps is held up by it.           *)
Elapse(max) ==
    /\ now < max
    /\ \A w \in Workers : Running(w) => ~MustRun(w)
    /\ now' = now + 1
    /\ late' = [w \in Workers |-> late[w] \/ (alive[w] /\ pc[w] = "spin")]
    /\ UNCHANGED <<born, alive, quit, stalled, pc, cur, i_own_it, shm, stat, net, conf, asked, hist>>

Tick == Elapse(MaxTime)

Next ==
    \/ Tick
    \/ \E w \in Workers : ClaimLock(w)
    \/ \E w \in Workers : ClaimUnlock(w)
    \/ \E w \in Workers : Spawn(w)
    \/ \E w \in Workers : Shutdown(w)
    \/ \E w \in Workers : Die(w)
    \/ \E w \in Workers : Stall(w)
    \/ \E w \in Workers : Resume(w)
    \/ \E w \in Workers : \E p \in Peers : ClaimFire(w, p)
    \/ \E w \in Workers : \E p \in Peers : BeginProbe(w, p)
    \/ \E w \in Workers : \E p \in Peers : BeginProbeCrash(w, p)
    \/ \E w \in Workers : \E p \in Peers : WriteReady(w, p)
    \/ \E w \in Workers : \E p \in Peers : ReadReady(w, p)
    \/ \E w \in Workers : \E p \in Peers : ReadTimer(w, p)
    \/ \E w \in Workers : \E p \in Peers : ClearEventsCrash(w, p)

Spec == Init /\ [][Next]_vars

(* One worker that is never held up. *)
NextProbe ==
    \/ Tick
    \/ \E w \in Workers : ClaimLock(w)
    \/ \E w \in Workers : ClaimUnlock(w)
    \/ \E w \in Workers : Shutdown(w)
    \/ \E w \in Workers : Die(w)
    \/ \E w \in Workers : \E p \in Peers : ClaimFire(w, p)
    \/ \E w \in Workers : \E p \in Peers : BeginProbe(w, p)
    \/ \E w \in Workers : \E p \in Peers : BeginProbeCrash(w, p)
    \/ \E w \in Workers : \E p \in Peers : WriteReady(w, p)
    \/ \E w \in Workers : \E p \in Peers : ReadReady(w, p)
    \/ \E w \in Workers : \E p \in Peers : ReadTimer(w, p)
    \/ \E w \in Workers : \E p \in Peers : ClearEventsCrash(w, p)

SpecProbe == InitProbe /\ [][NextProbe]_vars

----------------------------------------------------------------------------
(* The ownership protocol under fair scheduling.  Workers die only early    *)
(* (up to DieBy after the start), so that the time left is enough for a     *)
(* refused claim attempt to be retried after the staleness deadline.        *)

LiveMaxTime ==
    StartTime + DieBy + StaleAfter(ConfSilent) + ConfSilent.health_delay * 10

TickLive == Elapse(LiveMaxTime)

DieEarly(w) ==
    /\ now <= StartTime + DieBy
    /\ Die(w)

(* The handlers the event loop of worker w runs when they are due. *)
Handlers(w) ==
    \/ ClaimLock(w)
    \/ ClaimUnlock(w)
    \/ \E p \in Peers :
          \/ ClaimFire(w, p)
          \/ BeginProbe(w, p)
          \/ ReadTimer(w, p)

NextLive ==
    \/ TickLive
    \/ \E w \in Workers : ClaimLock(w)
    \/ \E w \in Workers : ClaimUnlock(w)
    \/ \E w \in Workers : Spawn(w)
    \/ \E w \in Workers : DieEarly(w)
    \/ \E w \in Workers : \E p \in Peers : ClaimFire(w, p)
    \/ \E w \in Workers : \E p \in Peers : BeginProbe(w, p)
    \/ \E w \in Workers : \E p \in Peers : WriteReady(w, p)
    \/ \E w \in Workers : \E p \in Peers : ReadReady(w, p)
    \/ \E w \in Workers : \E p \in Peers : ReadTimer(w, p)

SpecLive ==
    /\ Init
    /\ [][NextLive]_vars
    /\ WF_vars(TickLive)
    /\ \A w \in 1..NWorkers : WF_vars(Handlers(w))

----------------------------------------------------------------------------
(* The recognizer fed with one response in chunks: one worker whose probe   *)
(* has sent its request and reads the answer of a peer that sends `a` and   *)
(* closes the connection.                                                   *)

(* " 200 " followed by an empty header: the status line up to the code, the *)
(* end of the line and the blank line.                                      *)
Head200 == <<SP, CH2, CH0, CH0, SP, LF, LF>>

TailBytes == {SP, CR, LF, CH2, CHp, CHX}

RECURSIVE Tails(_)
Tails(n) ==
    IF n = 0 THEN {<<>>}
    ELSE LET shorter == Tails(n - 1)
         IN  shorter \cup {Append(t, b) : t \in shorter, b \in TailBytes}

(* The decimal digits of n, as a server writes them. *)
RECURSIVE Digits(_)
Digits(n) ==
    IF n < 10 THEN <<CH0 + n>>
    ELSE Append(Digits(n \div 10), CH0 + (n % 10))

(* A status line up to the space after status code n. *)
HeadCode(n) == <<SP>> \o Digits(n) \o <<SP>>

RecvHeads ==
    {<<>>, HeadCode(NGX_HTTP_OK), Head200, HeadCode(404),
     HeadCode(UintModulus + NGX_HTTP_OK)}

RecvInputs == {h \o t : h \in RecvHeads, t \in Tails(MaxTail)}

Expecteds ==
    {[unset |-> TRUE, data |-> <<>>], [unset |-> FALSE, data |-> <<>>],
     [unset |-> FALSE, data |-> <<CHp>>], [unset |-> FALSE, data |-> <<CHp, CHX>>]}

(* A buffer that ends one byte after the blank line. *)
SmallBuffer == Len(Head200) + 1

RecvConfs ==
    {[ConfInit EXCEPT !.health_expected = e, !.health_buffersize = b, !.answers = {a}] :
        e \in Expecteds, b \in {health_buffersize, SmallBuffer}, a \in RecvInputs}

(* The private table and the slot after worker 1 took the peer at StartTime *)
(* and, health_delay later, began a probe and sent the whole request.       *)
Reading(cf) ==
    LET t0  == StartTime
        t1  == StartTime + cf.health_delay
        cfs == [p \in {1} |-> cf]
        own == ownership_body(procinit(cfs, t0, [p \in {1} |-> 0]), ShmInit(t0),
                              1, cf, 1, t0)
        rel == ownership_release(own.wt, own.sh, 1, cf, own.own, t0)
        beg == begin_healthcheck(rel.wt, rel.sh, 1, cf, t1)
    IN  write_handler(beg.wt, beg.sh, 1, cf, FALSE, t1,
                      [n |-> cf.health_send_len, end |-> "full"])

InitRecv ==
    \E cf \in RecvConfs :
        /\ now = StartTime + cf.health_delay
        /\ born = [w \in {1} |-> TRUE]
        /\ alive = [w \in {1} |-> TRUE]
        /\ quit = [w \in {1} |-> FALSE]
        /\ stalled = [w \in {1} |-> FALSE]
        /\ late = [w \in {1} |-> FALSE]
        /\ pc = [w \in {1} |-> "idle"]
        /\ cur = [w \in {1} |-> 0]
        /\ i_own_it = [w \in {1} |-> FALSE]
        /\ conf = [p \in {1} |-> cf]
        /\ hist = [p \in {1} |-> HistInit]
        /\ asked = <<>>
        /\ shm = [p \in {1} |-> Reading(cf).sh]
        /\ stat = [w \in {1} |-> Reading(cf).wt]
        /\ net = [w \in {1} |-> [p \in {1} |->
                     [data |-> CHOOSE a \in cf.answers : TRUE, off |-> 0]]]

(* A readable notification with bytes to read. *)
RecvChunk(w, p) ==
    \E rcv \in RecvData(stat[w][p], conf[p], net[w][p]) : Read(w, p, rcv)

(* A readable notification after the peer closed the connection. *)
RecvClose(w, p) ==
    \E rcv \in RecvEnd(stat[w][p], conf[p], net[w][p]) : Read(w, p, rcv)

NextRecv ==
    \/ \E w \in Workers : \E p \in Peers : RecvChunk(w, p)
    \/ \E w \in Workers : \E p \in Peers : RecvClose(w, p)

SpecRecv == InitRecv /\ [][NextRecv]_vars

----------------------------------------------------------------------------
(* Properties of the ownership protocol (specification Spec).               *)

----------------------------------------------------------------------------
(* The question the upstream module asks when it picks a peer for a         *)
(* request.                                                                 *)

(* An answer from the verdict of the latest probe alone. *)
is_down_unfiltered(index) ==
    IF /\ index < Cardinality(Peers)
       /\ conf[index + 1].healthcheck_enabled
       /\ shm[index + 1].last_down # 0
    THEN 1 ELSE 0

(* ngx_http_healthcheck_is_down.  Peer p of the model is element p - 1 of   *)
(* ngx_http_healthchecks; index is an ngx_uint_t.                           *)
is_down(index) ==
    IF /\ index < Cardinality(Peers)
       /\ conf[index + 1].healthcheck_enabled
       /\ shm[index + 1].down # 0
    THEN 1 ELSE 0

(* The indexes a caller passes: those of the peers and two past the end. *)
Indexes == 0..(Cardinality(Peers) + 1)

(* Worker w, handling a request, calls is_down(index). *)
IsDown(w, index) ==
    /\ Idle(w)
    /\ asked = <<>>
    /\ asked' = <<index, is_down(index)>>
    /\ UNCHANGED <<now, born, alive, quit, stalled, late, pc, cur, i_own_it, shm, stat,
                   net, conf, hist>>

(* The caller has used the value. *)
Answered(w) ==
    /\ alive[w]
    /\ asked # <<>>
    /\ asked' = <<>>
    /\ UNCHANGED <<now, born, alive, quit, stalled, late, pc, cur, i_own_it, shm, stat,
                   net, conf, hist>>

(* One worker and three peers that do not answer; the upstream of the third *)
(* has no healthcheck_enabled.                                              *)
InitPeers ==
    InitWith({1}, [p \in 1..3 |->
                      IF p = 3 THEN [ConfSilent EXCEPT !.healthcheck_enabled = FALSE]
                      ELSE ConfSilent])

NextPeers ==
    \/ Tick
    \/ \E w \in Workers : ClaimLock(w)
    \/ \E w \in Workers : ClaimUnlock(w)
    \/ \E w \in Workers : Shutdown(w)
    \/ \E w \in Workers : \E p \in Peers : ClaimFire(w, p)
    \/ \E w \in Workers : \E p \in Peers : BeginProbe(w, p)
    \/ \E w \in Workers : \E p \in Peers : BeginProbeCrash(w, p)
    \/ \E w \in Workers : \E p \in Peers : WriteReady(w, p)
    \/ \E w \in Workers : \E p \in Peers : ReadReady(w, p)
    \/ \E w \in Workers : \E p \in Peers : ReadTimer(w, p)
    \/ \E w \in Workers : \E p \in Peers : ClearEventsCrash(w, p)
    \/ \E w \in Workers : \E index \in Indexes : IsDown(w, index)
    \/ \E w \in Workers : Answered(w)

SpecPeers == InitPeers /\ [][NextPeers]_vars

(* Worker w has a probe of peer p in flight. *)
InFlight(w, p) ==
    /\ stat[w][p].conn
    /\ stat[w][p].state \in {NGX_HEALTH_SENDING_CHECK, NGX_HEALTH_READING_STAT_LINE,
                             NGX_HEALTH_READING_STAT_CODE, NGX_HEALTH_READING_HEADER,
                             NGX_HEALTH_HEADER_ALMOST_DONE, NGX_HEALTH_READING_BODY}

(* Worker w is inside the critical section of try_for_ownership for peer p. *)
InSection(w, p) == alive[w] /\ pc[w] = "locked" /\ cur[w] = p

(* Worker w is alive, was not told to shut down and was never kept from     *)
(* running a handler that was due.                                          *)
Live(w) == alive[w] /\ ~quit[w] /\ ~late[w]

(* A live worker that is between handlers with nothing due. *)
OnTime(w) == Live(w) /\ Running(w) /\ pc[w] = "idle" /\ ~MustRun(w)

(* The worker recorded as owner of peer p does not exist any more. *)
OwnerDead(p) == shm[p].owner # NoPid /\ ~alive[shm[p].owner]

(* C1: for every peer, at any instant at most one running worker has a      *)
(* probe of that peer in flight (state SENDING_CHECK .. READING_BODY):      *)
(* probes of one peer never overlap.                                        *)
C1_NoOverlappingProbes ==
    \A p \in Peers : \A w1, w2 \in Workers :
        (Running(w1) /\ Running(w2) /\ InFlight(w1, p) /\ InFlight(w2, p))
            => w1 = w2

(* C2: the owner field of a peer is written only inside the critical        *)
(* section guarded by the spinlock, by the worker that holds the lock; at   *)
(* most one worker is inside the section at a time; a write takes a slot    *)
(* whose action_time is at least (delay + timeout) * 3 old and refreshes    *)
(* action_time, so of two workers racing for the slot only the first one    *)
(* writes owner.                                                            *)
C2_Mutex ==
    \A p \in Peers : \A w1, w2 \in Workers :
        /\ (InSection(w1, p) /\ InSection(w2, p)) => w1 = w2
        /\ InSection(w1, p) => shm[p].lock = w1

C2_OwnerStep ==
    \A p \in Peers :
        shm'[p].owner # shm[p].owner =>
            \E w \in Workers :
                /\ alive[w] /\ pc[w] = "spin" /\ cur[w] = p
                /\ pc'[w] = "locked"
                /\ shm[p].lock = NoPid
                /\ shm'[p].lock = w
                /\ shm'[p].owner = w
                /\ now - shm[p].action_time >= StaleAfter(conf[p])
                /\ shm'[p].action_time = now

C2_SingleOwner == [] C2_Mutex /\ [][C2_OwnerStep]_vars

(* Two workers raced for an unclaimed slot in the same millisecond: the     *)
(* winner has left the section, the loser is inside it and has seen the     *)
(* refreshed action_time.                                                   *)
C2_RaceLost ==
    \E p \in Peers : \E w, o \in Workers :
        /\ w # o
        /\ InSection(w, p) /\ ~i_own_it[w]
        /\ shm[p].owner = o
        /\ shm[p].action_time = now
        /\ hist[p].last = NoVerdict
        /\ stat[o][p].health_ev = now + conf[p].health_delay

(* C3: while the owner of a peer is alive, not shutting down and on         *)
(* schedule, its action_time is never older than delay + timeout and no     *)
(* step changes the owner field: claim attempts of other workers leave it.  *)
C3_OwnerFresh ==
    \A p \in Peers :
        (shm[p].owner # NoPid /\ Live(shm[p].owner))
            => now - shm[p].action_time <= conf[p].health_delay + conf[p].health_timeout

C3_OwnerKept ==
    \A p \in Peers :
        (shm[p].owner # NoPid /\ Live(shm[p].owner))
            => shm'[p].owner = shm[p].owner

C3_NoStealFromLiveOwner == [] C3_OwnerFresh /\ [][C3_OwnerKept]_vars

(* A claim attempt of another worker was refused while the owner was live   *)
(* and had finished probes.                                                 *)
C3_Refused ==
    \E p \in Peers : \E w, o \in Workers :
        /\ w # o
        /\ InSection(w, p) /\ ~i_own_it[w]
        /\ shm[p].owner = o /\ Live(o)
        /\ hist[p].last # NoVerdict

(* C5 as stated: when the owner of a peer is dead and another worker is     *)
(* live, no more than (delay + timeout) * 3 have passed since the last      *)
(* action_time without that worker having taken the peer over.              *)
C5_TakeoverByStaleness ==
    \A p \in Peers : \A w \in Workers :
        (OwnerDead(p) /\ OnTime(w))
            => now - shm[p].action_time <= StaleAfter(conf[p])

(* C5 amended: a claim attempt of a worker that is not the owner takes the  *)
(* peer exactly when action_time is at least (delay + timeout) * 3 old at   *)
(* that attempt, and a live worker that does not own the peer has its next  *)
(* attempt armed at most delay * 10 ahead: the attempts are delay * 10      *)
(* apart, so a takeover can come that much after the staleness deadline.    *)
C5_RetryArmed ==
    \A p \in Peers : \A w \in Workers :
        (OnTime(w) /\ shm[p].owner # w /\ conf[p].healthcheck_enabled)
            => /\ stat[w][p].ownership_ev > now
               /\ stat[w][p].ownership_ev <= now + conf[p].health_delay * 10

C5_AttemptStep ==
    \A p \in Peers : \A w \in Workers :
        (alive[w] /\ pc[w] = "spin" /\ pc'[w] = "locked" /\ cur[w] = p
            /\ shm[p].owner # w)
        => IF now - shm[p].action_time >= StaleAfter(conf[p])
           THEN shm'[p].owner = w /\ i_own_it'[w]
           ELSE shm'[p].owner = shm[p].owner /\ ~i_own_it'[w]

C5_TakeoverAtAttempt == [] C5_RetryArmed /\ [][C5_AttemptStep]_vars

(* A worker has taken over a peer that another worker, now dead, had        *)
(* probed.                                                                  *)
C5_TookOver ==
    \E p \in Peers : \E w, o \in Workers :
        /\ w # o
        /\ InSection(w, p) /\ i_own_it[w] /\ shm[p].owner = w
        /\ born[o] /\ ~alive[o]
        /\ hist[p].last # NoVerdict
        /\ stat[w][p].health_ev = now + conf[p].health_delay

----------------------------------------------------------------------------
(* Properties of the verdict filter (specification SpecProbe).              *)

(* A step in which a running worker finishes a probe of peer p: its         *)
(* connection is closed by mark_finished (the worker goes on, or crashes in *)
(* clear_events after the slot was written).                                *)
FinishStep(p) ==
    \E w \in Workers :
        /\ alive[w] /\ stat[w][p].conn /\ ~stat'[w][p].conn
        /\ alive'[w] \/ shm'[p] # shm[p]

(* The latest health_failcount finished probes of peer p were all bad       *)
(* (v = TRUE) or all good (v = FALSE).                                      *)
RunOf(p, h, v) ==
    /\ Len(h.bad) = Keep(conf[p])
    /\ \A i \in 1..Len(h.bad) : h.bad[i] = v

(* C6: once health_failcount consecutive probes were bad, down is 1, and it *)
(* stays 1 through every later probe until health_failcount consecutive     *)
(* probes were good, when it becomes 0; and the same with good and bad      *)
(* exchanged.  down changes only at the end of such a run.                  *)
C6_Settled ==
    \A p \in Peers :
        /\ RunOf(p, hist[p], TRUE) => shm[p].down = 1
        /\ RunOf(p, hist[p], FALSE) => shm[p].down = 0

C6_Sticky ==
    \A p \in Peers :
        shm'[p].down # shm[p].down => RunOf(p, hist'[p], shm'[p].down = 1)

C6_AntiFlap == [] C6_Settled /\ [][C6_Sticky]_vars

(* The peer is published down, and its latest probe was good after a bad    *)
(* one: down has outlived a good probe.                                     *)
C6_DownOutlivesGood ==
    \E p \in Peers :
        /\ shm[p].down = 1
        /\ Len(hist[p].bad) >= 2
        /\ ~hist[p].bad[Len(hist[p].bad)]
        /\ hist[p].bad[Len(hist[p].bad) - 1]

(* C7: down changes only in a step that finishes a probe, and only when the *)
(* run length after that probe is at least health_failcount; the value      *)
(* written is last_down.                                                    *)
C7_DownStep ==
    \A p \in Peers :
        shm'[p].down # shm[p].down =>
            /\ FinishStep(p)
            /\ shm'[p].concurrent >= conf[p].health_failcount
            /\ shm'[p].down = shm'[p].last_down

C7_DownOnlyAtFailcount == [][C7_DownStep]_vars

(* A run of bad probes has just reached health_failcount and down was       *)
(* written.                                                                 *)
C7_Published ==
    \E p \in Peers :
        /\ shm[p].down = 1 /\ shm[p].last_down = 1
        /\ shm[p].concurrent = conf[p].health_failcount
        /\ hist[p].last # NoVerdict

(* C8: once a probe of a peer has been finished, concurrent is at least 1,  *)
(* down_code is the terminal state that the latest finished probe reached,  *)
(* and last_down is 1 exactly when down_code is not OK.                     *)
C8_AfterProbe ==
    \A p \in Peers :
        hist[p].last # NoVerdict =>
            /\ shm[p].concurrent >= 1
            /\ shm[p].down_code \in FinalStates
            /\ shm[p].down_code = hist[p].last
            /\ (shm[p].last_down = 1) <=> (shm[p].down_code # NGX_HEALTH_OK)

(* A good probe was finished after another good one. *)
C8_GoodRun ==
    \E p \in Peers :
        /\ hist[p].last = NGX_HEALTH_OK
        /\ shm[p].down_code = NGX_HEALTH_OK
        /\ shm[p].concurrent >= 2

----------------------------------------------------------------------------
(* The takeover under fair scheduling (specification SpecLive).             *)

(* Some worker is alive and not shutting down. *)
SomeoneLeft == \E w \in Workers : alive[w] /\ ~quit[w]

(* C4: whenever the owner of a peer is dead (wherever it died: between      *)
(* handlers, in a probe or inside a claim attempt) and another worker is    *)
(* alive and not shutting down, eventually the peer has an owner that is    *)
(* alive, unless no such worker is left.                                    *)
C4_EventualTakeover ==
    \A p \in {1} :
        [] ((OwnerDead(p) /\ SomeoneLeft) => <> (~OwnerDead(p) \/ ~SomeoneLeft))

(* The owner died inside the critical section; a live worker has been      *)
(* spinning on the lock it left behind since before the staleness deadline  *)
(* and through a whole retry period after it.                               *)
C4_LockOrphaned ==
    \E p \in Peers : \E w \in Workers :
        /\ OwnerDead(p)
        /\ shm[p].lock = shm[p].owner
        /\ alive[w] /\ ~quit[w] /\ pc[w] = "spin" /\ cur[w] = p
        /\ now - shm[p].action_time
              >= StaleAfter(conf[p]) + conf[p].health_delay * 10

----------------------------------------------------------------------------
(* Properties of the recognizer (specification SpecRecv).                   *)

(* What peer p answers (in SpecRecv it has one answer). *)
TheAnswer(p) == CHOOSE a \in conf[p].answers : TRUE

(* The terminal state of a probe that receives answer a in one chunk (as    *)
(* much of it as the buffer holds) and then, if the recognizer wants more,  *)
(* the peer's close.                                                        *)
WholeVerdict(cf, a) ==
    LET r0    == Reading(cf)
        t     == StartTime + cf.health_delay
        most  == IF Len(a) < cf.health_buffersize THEN Len(a)
                 ELSE cf.health_buffersize
        zero  == [kind |-> "zero", bytes |-> <<>>]
        first == IF most = 0
                 THEN read_handler(r0.wt, r0.sh, 1, cf, FALSE, t, zero)
                 ELSE read_handler(r0.wt, r0.sh, 1, cf, FALSE, t,
                                   [kind |-> "data", bytes |-> SubSeq(a, 1, most)])
    IN  IF first.fin # NoVerdict THEN first.fin
        ELSE read_handler(first.wt, first.sh, 1, cf, FALSE, t, zero).fin

(* C9: however the bytes of a response are split into chunks, the terminal  *)
(* state of the probe is the one reached when the response arrives in one   *)
(* chunk.                                                                   *)
C9_ChunkInvariance ==
    \A p \in Peers :
        hist[p].last # NoVerdict =>
            hist[p].last = WholeVerdict(conf[p], TheAnswer(p))

(* Answer a is a 200 response whose body is the expected bytes and one more *)
(* byte.                                                                    *)
ExtraByte(cf, a) ==
    LET e == cf.health_expected.data IN
    /\ ~cf.health_expected.unset
    /\ Len(a) = Len(Head200) + Len(e) + 1
    /\ SubSeq(a, 1, Len(Head200) + Len(e)) = Head200 \o e

(* C10: a 200 response whose body is the expected bytes followed by one     *)
(* extra byte ends in BAD_BODY, for every expected literal and however the  *)
(* bytes are delivered.                                                     *)
C10_ExtraByteIsBadBody ==
    \A p \in Peers :
        (hist[p].last # NoVerdict /\ ExtraByte(conf[p], TheAnswer(p)))
            => hist[p].last = NGX_HEALTH_BAD_BODY

(* The recognizer, given what the read handler has in the buffer after      *)
(* result rcv of c->recv, wants more while the buffer is full.              *)
NeedMoreAtFull(st, cf, rcv) ==
    /\ rcv.kind \in {"data", "again"}
    /\ LET r == process_recv([st EXCEPT !.rbuf = @ \o rcv.bytes], cf.health_expected)
       IN  r.rc = NGX_AGAIN /\ Len(r.st.rbuf) = cf.health_buffersize

(* Answer a is a 200 response with the expected body and nothing else, as   *)
(* long as the buffer.                                                      *)
ExactFit(cf, a) ==
    /\ ~cf.health_expected.unset
    /\ a = Head200 \o cf.health_expected.data
    /\ Len(a) = cf.health_buffersize

(* C11: a probe ends in FULL_BUFFER exactly in a call of the read handler   *)
(* in which the recognizer returns NGX_AGAIN while the buffer is full; a    *)
(* response that fills the buffer exactly and carries the expected body     *)
(* ends in OK, not FULL_BUFFER.                                             *)
C11_FullBufferStep ==
    \A w \in Workers : \A p \in Peers :
        \A rcv \in RecvData(stat[w][p], conf[p], net[w][p])
                   \cup RecvEnd(stat[w][p], conf[p], net[w][p]) :
            Read(w, p, rcv) =>
                ((hist[p].last = NoVerdict /\ hist'[p].last = NGX_HEALTH_FULL_BUFFER)
                    <=> NeedMoreAtFull(stat[w][p], conf[p], rcv))

C11_ExactFitIsOK ==
    \A p \in Peers :
        (hist[p].last # NoVerdict /\ ExactFit(conf[p], TheAnswer(p)))
            => hist[p].last = NGX_HEALTH_OK

C11_FullBufferOnlyWhenNeedMore == [] C11_ExactFitIsOK /\ [][C11_FullBufferStep]_vars

(* A response that fills the buffer exactly, with the expected body, was    *)
(* read to its end.                                                         *)
C11_ExactFitRead ==
    \E p \in Peers :
        /\ ExactFit(conf[p], TheAnswer(p))
        /\ hist[p].last = NGX_HEALTH_OK

(* A probe ended in FULL_BUFFER. *)
C11_BufferFilled == \E p \in Peers : hist[p].last = NGX_HEALTH_FULL_BUFFER

IsDigit(b) == b \in CH0..CH9

(* The number a string of decimal digits denotes. *)
RECURSIVE Denotes(_)
Denotes(tok) ==
    IF tok = <<>> THEN 0
    ELSE Denotes(SubSeq(tok, 1, Len(tok) - 1)) * 10 + (tok[Len(tok)] - CH0)

(* Positions <<i, j>> of the spaces around the status-code token of answer  *)
(* a: the first space of the status line and the space that ends a token of *)
(* digits.                                                                  *)
CodeSpan(a) ==
    {ij \in (1..Len(a)) \X (1..Len(a)) :
        /\ ij[1] < ij[2]
        /\ a[ij[1]] = SP /\ a[ij[2]] = SP
        /\ \A k \in 1..(ij[1] - 1) : a[k] \notin {SP, CR, LF}
        /\ \A k \in (ij[1] + 1)..(ij[2] - 1) : IsDigit(a[k])}

CodeOf(a) == LET ij == CHOOSE ij \in CodeSpan(a) : TRUE
             IN  Denotes(SubSeq(a, ij[1] + 1, ij[2] - 1))

(* C12: a probe ends in OK only if the status-code token of the response    *)
(* denotes 200, and a response whose token denotes any other number ends in *)
(* BAD_CODE whatever follows the token.                                     *)
C12_Only200 ==
    \A p \in Peers :
        LET a == TheAnswer(p) IN
        /\ hist[p].last = NGX_HEALTH_OK
               => (CodeSpan(a) # {} /\ CodeOf(a) = NGX_HTTP_OK)
        /\ (hist[p].last # NoVerdict /\ CodeSpan(a) # {} /\ CodeOf(a) # NGX_HTTP_OK)
               => hist[p].last = NGX_HEALTH_BAD_CODE

(* A response with status code 404 was refused as BAD_CODE. *)
C12_Refused404 ==
    \E p \in Peers :
        /\ CodeSpan(TheAnswer(p)) # {} /\ CodeOf(TheAnswer(p)) = 404
        /\ hist[p].last = NGX_HEALTH_BAD_CODE

(* The classes of bytes the recognizer tells apart. *)
ByteClass(ch) ==
    CASE ch = SP -> "space"
      [] ch = CR -> "cr"
      [] ch = LF -> "lf"
      [] IsDigit(ch) -> "digit"
      [] OTHER -> "other"

(* One byte of each class, every digit, and the ends of the byte range. *)
ClassBytes == {SP, CR, LF, CHp, CHX, 0, 255} \cup (CH0..CH9)

(* The transition table of the recognizer: what state st becomes on byte ch *)
(* and whether the recognizer goes on ("more"), accepts ("ok") or refuses   *)
(* ("error").  stat_code is the platform's unsigned integer.                *)
TableRow(st, ch, expected) ==
    LET c == ByteClass(ch)
        s == st.state
        goto(x) == [to |-> [st EXCEPT !.state = x], res |-> "more"]
        stay == [to |-> st, res |-> "more"]
        term(x) == [to |-> [st EXCEPT !.state = x],
                    res |-> IF x = NGX_HEALTH_OK THEN "ok" ELSE "error"]
    IN  CASE s = NGX_HEALTH_READING_STAT_LINE /\ c = "space" ->
                [to |-> [st EXCEPT !.state = NGX_HEALTH_READING_STAT_CODE,
                                   !.stat_code = 0],
                 res |-> "more"]
          [] s = NGX_HEALTH_READING_STAT_LINE /\ c \in {"cr", "lf"} ->
                term(NGX_HEALTH_BAD_STATUS)
          [] s = NGX_HEALTH_READING_STAT_LINE /\ c \in {"digit", "other"} -> stay
          [] s = NGX_HEALTH_READING_STAT_CODE /\ c = "space" ->
                IF st.stat_code = 200 THEN goto(NGX_HEALTH_READING_HEADER)
                ELSE term(NGX_HEALTH_BAD_CODE)
          [] s = NGX_HEALTH_READING_STAT_CODE /\ c = "digit" ->
                [to |-> [st EXCEPT !.stat_code =
                                       (@ * 10 + (ch - CH0)) % UintModulus],
                 res |-> "more"]
          [] s = NGX_HEALTH_READING_STAT_CODE /\ c \in {"cr", "lf", "other"} ->
                term(NGX_HEALTH_BAD_STATUS)
          [] s = NGX_HEALTH_READING_HEADER /\ c = "lf" ->
                goto(NGX_HEALTH_HEADER_ALMOST_DONE)
          [] s = NGX_HEALTH_READING_HEADER /\ c # "lf" -> stay
          [] s = NGX_HEALTH_HEADER_ALMOST_DONE /\ c = "lf" ->
                IF expected.unset THEN term(NGX_HEALTH_OK)
                ELSE goto(NGX_HEALTH_READING_BODY)
          [] s = NGX_HEALTH_HEADER_ALMOST_DONE /\ c = "cr" -> stay
          [] s = NGX_HEALTH_HEADER_ALMOST_DONE /\ c \notin {"lf", "cr"} ->
                goto(NGX_HEALTH_READING_HEADER)
          [] s = NGX_HEALTH_READING_BODY ->
                IF /\ st.body_read_pos < Len(expected.data)
                   /\ ch = expected.data[st.body_read_pos + 1]
                THEN [to |-> [st EXCEPT !.body_read_pos = @ + 1], res |-> "more"]
                ELSE term(NGX_HEALTH_BAD_BODY)
          [] OTHER -> term(NGX_HEALTH_BAD_STATE)

ResultOf(rc) ==
    CASE rc = NGX_AGAIN -> "more"
      [] rc = NGX_OK -> "ok"
      [] rc = NGX_ERROR -> "error"

(* In every state a probe is found in, the recognizer does on every byte    *)
(* what the table says.                                                     *)
C13_TableAgrees ==
    \A w \in Workers : \A p \in Peers : \A ch \in ClassBytes :
        LET r   == process_byte(stat[w][p], ch, conf[p].health_expected)
            row == TableRow(stat[w][p], ch, conf[p].health_expected)
        IN  r.st = row.to /\ ResultOf(r.rc) = row.res

(* The first space, CR or LF of answer a is a CR or an LF, among the first  *)
(* n bytes.                                                                 *)
LineEndsEarly(a, n) ==
    \E k \in 1..Len(a) :
        /\ k <= n
        /\ a[k] \in {CR, LF}
        /\ \A j \in 1..(k - 1) : a[j] \notin {SP, CR, LF}

(* A response with a CR or LF before its first space, within what the       *)
(* buffer holds, ends in BAD_STATUS.                                        *)
C13_EarlyLineEnd ==
    \A p \in Peers :
        (/\ hist[p].last # NoVerdict
         /\ LineEndsEarly(TheAnswer(p), conf[p].health_buffersize))
            => hist[p].last = NGX_HEALTH_BAD_STATUS

(* The positions at which a blank line of answer a ends after its status    *)
(* code: an LF that follows an LF with nothing but CRs between them.        *)
BlankLineEnds(a) ==
    LET from == (CHOOSE ij \in CodeSpan(a) : TRUE)[2] IN
    {k \in (from + 1)..Len(a) :
        /\ a[k] = LF
        /\ \E j \in (from + 1)..(k - 1) :
              a[j] = LF /\ \A m \in (j + 1)..(k - 1) : a[m] = CR}

FirstBlankLineEnd(a) ==
    CHOOSE k \in BlankLineEnds(a) : \A k2 \in BlankLineEnds(a) : k <= k2

(* With no expected body a 200 response that has a blank line, within what  *)
(* the buffer holds, ends in OK.                                            *)
C13_BlankLineIsOK ==
    \A p \in Peers :
        LET a == TheAnswer(p) IN
        (/\ hist[p].last # NoVerdict
         /\ conf[p].health_expected.unset
         /\ CodeSpan(a) # {} /\ CodeOf(a) = NGX_HTTP_OK
         /\ BlankLineEnds(a) # {}
         /\ FirstBlankLineEnd(a) <= conf[p].health_buffersize)
            => hist[p].last = NGX_HEALTH_OK

(* With no expected body the recognizer accepts at the LF that ends the     *)
(* first blank line and has read no byte after it.                          *)
C13_BlankLineStep ==
    \A w \in Workers : \A p \in Peers :
        \A rcv \in RecvData(stat[w][p], conf[p], net[w][p]) :
            (/\ Read(w, p, rcv)
             /\ conf[p].health_expected.unset
             /\ hist[p].last = NoVerdict
             /\ hist'[p].last = NGX_HEALTH_OK)
                => LET r == process_recv([stat[w][p] EXCEPT !.rbuf = @ \o rcv.bytes],
                                         conf[p].health_expected)
                   IN  /\ CodeSpan(TheAnswer(p)) # {}
                       /\ BlankLineEnds(TheAnswer(p)) # {}
                       /\ r.st.read_pos = FirstBlankLineEnd(TheAnswer(p))

C13_BodyLeftUnread ==
    \E p \in Peers :
        /\ conf[p].health_expected.unset
        /\ TheAnswer(p) = Head200 \o <<CHp, CHX>>
        /\ hist[p].last = NGX_HEALTH_OK

(* A response that begins with a line end was refused. *)
C13_RefusedLineEnd ==
    \E p \in Peers :
        /\ LineEndsEarly(TheAnswer(p), conf[p].health_buffersize)
        /\ hist[p].last = NGX_HEALTH_BAD_STATUS

(* C14: is_down(index) is true exactly when index is below the number of    *)
(* peers, the peer's upstream has healthcheck_enabled and the peer's slot   *)
(* has down set; it is false for an index out of range and for a peer of an *)
(* upstream without healthcheck_enabled; the call changes nothing.          *)
C14_IsDownStep ==
    (asked = <<>> /\ asked' # <<>>) =>
        LET index == asked'[1]
            value == asked'[2]
        IN  /\ (value # 0) <=> (/\ index < Cardinality(Peers)
                                /\ conf[index + 1].healthcheck_enabled
                                /\ shm[index + 1].down = 1)
            /\ index >= Cardinality(Peers) => value = 0
            /\ (index < Cardinality(Peers) /\ ~conf[index + 1].healthcheck_enabled)
                   => value = 0
            /\ UNCHANGED <<now, born, alive, quit, stalled, late, pc, cur, i_own_it,
                           shm, stat, net, conf, hist>>

C14_IsDown == [][C14_IsDownStep]_vars

(* A caller was told that a peer whose slot has down set is down. *)
C14_ToldDown ==
    /\ asked # <<>>
    /\ asked[2] = 1
    /\ shm[asked[1] + 1].down = 1

(* A caller was told that the peer of the upstream without health checks is *)
(* not down.                                                                *)
C14_ToldNotChecked ==
    /\ asked # <<>>
    /\ asked[1] < Cardinality(Peers)
    /\ ~conf[asked[1] + 1].healthcheck_enabled
    /\ asked[2] = 0

(* A caller was told that an index past the last peer is not down. *)
C14_ToldOutOfRange ==
    /\ asked # <<>>
    /\ asked[1] >= Cardinality(Peers)
    /\ asked[2] = 0

(* Worker w closes the connection of its probe of peer p in this step. *)
Closes(w, p) == alive[w] /\ stat[w][p].conn /\ ~stat'[w][p].conn

(* C15: when a worker finishes a probe after a shutdown signal, health_ev   *)
(* is not armed again and no health_ev and no ownership_ev of the worker,   *)
(* for any peer, stays armed; when it finishes a probe with no shutdown     *)
(* signal, health_ev is armed for exactly health_delay later.               *)
C15_FinishStep ==
    \A w \in Workers : \A p \in Peers :
        Closes(w, p) =>
            /\ quit[w] =>
                  \A i \in Peers : /\ stat'[w][i].health_ev = NoTimer
                                   /\ stat'[w][i].ownership_ev = NoTimer
            /\ (~quit[w] /\ alive'[w]) =>
                  stat'[w][p].health_ev = now + conf[p].health_delay

C15_FinishUnderShutdown == [][C15_FinishStep]_vars

(* A worker told to shut down has finished a probe and is still there; it   *)
(* owns another peer that it has never probed, whose health_ev is gone.     *)
C15_OtherPeerCancelled ==
    \E w \in Workers : \E p, i \in Peers :
        /\ alive[w] /\ quit[w]
        /\ p # i
        /\ hist[p].last # NoVerdict
        /\ shm[i].owner = w
        /\ shm[i].down_code = NGX_HEALTH_UNINIT_STATE
        /\ ~stat[w][i].conn
        /\ stat[w][i].health_ev = NoTimer

(* A worker with no shutdown signal has finished a probe and waits          *)
(* health_delay for the next.                                               *)
C15_Rearmed ==
    \E w \in Workers : \E p \in Peers :
        /\ alive[w] /\ ~quit[w]
        /\ hist[p].last # NoVerdict
        /\ stat[w][p].health_ev = now + conf[p].health_delay

(* C16: once a shutdown signal has reached a worker, the worker begins no   *)
(* probe and arms no health_ev and no ownership_ev, also when a health_ev   *)
(* armed before the signal expires after it.                                *)
C16_QuietStep ==
    \A w \in Workers : \A p \in Peers :
        (alive[w] /\ quit[w]) =>
            /\ ~(~stat[w][p].conn /\ stat'[w][p].conn)
            /\ stat'[w][p].health_ev \in {NoTimer, stat[w][p].health_ev}
            /\ stat'[w][p].ownership_ev \in {NoTimer, stat[w][p].ownership_ev}

C16_NoNewWorkAfterShutdown == [][C16_QuietStep]_vars

(* A worker told to shut down has a probe in flight that has sent nothing   *)
(* yet, begun in the millisecond the clock shows.                           *)
C16_ProbingWhileShuttingDown ==
    \E w \in Workers : \E p \in Peers :
        /\ alive[w] /\ quit[w]
        /\ InFlight(w, p)
        /\ stat[w][p].state = NGX_HEALTH_SENDING_CHECK
        /\ stat[w][p].send_pos = 0
        /\ stat[w][p].check_start_time = now

(* C17: every probe of a worker without a shutdown signal that fails, a     *)
(* failure to establish the connection included, is followed by another     *)
(* probe of the peer by that worker health_delay later, however many probes *)
(* failed before: a probe that ends bad arms health_ev for now +            *)
(* health_delay, and an expiry of health_ev leaves the worker with a probe  *)
(* in flight or, the connection having failed, with health_ev armed again.  *)
C17_RetryStep ==
    \A w \in Workers : \A p \in Peers :
        (alive[w] /\ ~quit[w]) =>
            /\ (Closes(w, p) /\ alive'[w] /\ hist'[p].last # NGX_HEALTH_OK)
                   => stat'[w][p].health_ev = now + conf[p].health_delay
            /\ (Due(stat[w][p].health_ev)
                    /\ stat'[w][p].health_ev # stat[w][p].health_ev)
                   => /\ alive'[w]
                      /\ \/ stat'[w][p].conn
                         \/ stat'[w][p].health_ev = now + conf[p].health_delay

C17_FailedProbeIsRetried == [][C17_RetryStep]_vars

(* After more bad probes than health_failcount the worker waits             *)
(* health_delay for the next one.                                           *)
C17_StillRetrying ==
    \E w \in Workers : \E p \in Peers :
        /\ alive[w] /\ ~quit[w]
        /\ shm[p].last_down = 1
        /\ shm[p].concurrent > conf[p].health_failcount
        /\ stat[w][p].health_ev = now + conf[p].health_delay

(* Every result c->recv may give a call of the read handler of w's probe of *)
(* peer p.                                                                  *)
RecvResults(w, p) ==
    RecvData(stat[w][p], conf[p], net[w][p])
        \cup RecvEnd(stat[w][p], conf[p], net[w][p]) \cup RecvOther

(* The probe of peer p by worker w began health_timeout ago or earlier. *)
Overdue(w, p) == now - stat[w][p].check_start_time >= conf[p].health_timeout

(* Whatever is there to read, the read handler of a probe that is overdue   *)
(* finishes it as TIMEOUT with the buffer and its cursor as they were, and  *)
(* the read handler of a probe that is not overdue does not give TIMEOUT.   *)
C18_AtEveryCall ==
    \A w \in Workers : \A p \in Peers :
        (alive[w] /\ stat[w][p].conn) =>
            \A rcv \in RecvResults(w, p) :
                LET r == read_handler(stat[w], shm[p], p, conf[p], quit[w], now, rcv)
                IN  IF Overdue(w, p)
                    THEN /\ r.fin = NGX_HEALTH_TIMEOUT
                         /\ r.wt[p].rbuf = stat[w][p].rbuf
                         /\ r.wt[p].read_pos = stat[w][p].read_pos
                         /\ r.sh.down_code = NGX_HEALTH_TIMEOUT
                    ELSE r.fin # NGX_HEALTH_TIMEOUT

(* A probe is recorded as TIMEOUT (mark_finished writes the slot) only in a *)
(* step taken when it is overdue.                                           *)
C18_TimeoutStep ==
    \A w \in Workers : \A p \in Peers :
        (Closes(w, p) /\ shm'[p] # shm[p] /\ shm'[p].down_code = NGX_HEALTH_TIMEOUT)
            => Overdue(w, p)

(* C18: a readable notification handled when now - check_start_time >=      *)
(* health_timeout finishes the probe as TIMEOUT before anything is received *)
(* or recognized, also when a whole good response is there to read; one     *)
(* handled earlier never gives TIMEOUT.                                     *)
C18_TimeoutBeforeRead == [] C18_AtEveryCall /\ [][C18_TimeoutStep]_vars

(* The request is sent, the whole good response is there to read and        *)
(* nothing of it was read, and the probe is overdue.                        *)
C18_LateWithResponse ==
    \E w \in Workers : \E p \in Peers :
        /\ alive[w] /\ stat[w][p].conn
        /\ stat[w][p].state = NGX_HEALTH_READING_STAT_LINE
        /\ net[w][p] = [data |-> RespOK, off |-> 0]
        /\ Overdue(w, p)

(* A probe was finished as TIMEOUT. *)
C18_TimedOut == \E p \in Peers : hist[p].last = NGX_HEALTH_TIMEOUT

C19_TimedOutTwice ==
    \E p \in Peers :
        /\ hist[p].last = NGX_HEALTH_TIMEOUT
        /\ shm[p].down_code = NGX_HEALTH_TIMEOUT
        /\ shm[p].concurrent >= 2

(* C20: no probe is finished as BAD_STATE, whatever the order of writable   *)
(* and readable notifications, the bytes and their chunking, bytes of the   *)
(* response arriving before the request is sent included.                   *)
C20_NoBadState ==
    \A p \in Peers :
        /\ hist[p].last # NGX_HEALTH_BAD_STATE
        /\ shm[p].down_code # NGX_HEALTH_BAD_STATE

(* A probe was finished as BAD_STATE and counted as a failure. *)
C20_BadStateCounted ==
    \E p \in Peers :
        /\ shm[p].down_code = NGX_HEALTH_BAD_STATE
        /\ shm[p].last_down = 1

----------------------------------------------------------------------------
(* Who writes the shared slot (specification Spec).                         *)

(* A handler of worker w for peer p ran in this step: it changed the        *)
(* worker's private entries, or, when no private entry changed, it is a     *)
(* notification of the worker's open connection to p.                       *)
Acts(w, p) ==
    /\ alive[w]
    /\ \/ stat'[w] # stat[w]
       \/ stat' = stat /\ stat[w][p].conn

(* The step writes a field of the slot of peer p other than owner and lock, *)
(* outside a claim.                                                         *)
ProbeWrite(p) ==
    /\ shm'[p] # shm[p]
    /\ shm'[p].owner = shm[p].owner
    /\ shm'[p].lock = shm[p].lock

(* C21: every write to last_down, concurrent, since, down_code, down of a   *)
(* slot, and every write a probe makes to its action_time, is made by a     *)
(* worker that is the owner of the slot at that moment.                     *)
C21_WriteStep ==
    \A p \in Peers :
        ProbeWrite(p) => \E w \in Workers : Acts(w, p) /\ shm[p].owner = w

C21_OnlyOwnerWrites == [][C21_WriteStep]_vars

(* A worker whose slot was taken over while it was kept from running has a  *)
(* probe of that peer open with the slot owned by another worker: what its  *)
(* handlers write from here on, they write as a non-owner.                  *)
C21_RobbedProbing ==
    \E p \in Peers : \E w, o \in Workers :
        /\ w # o
        /\ Running(w) /\ stat[w][p].conn
        /\ shm[p].owner = o /\ alive[o] /\ ~stat[o][p].conn
        /\ hist[p].last # NoVerdict

----------------------------------------------------------------------------
(* What is done while the spinlock is held (specification Spec).            *)

(* The timers of worker w for peer p. *)
TimersOf(w, p) ==
    <<stat[w][p].health_ev, stat[w][p].ownership_ev, stat[w][p].read_ev>>

(* C22: the spinlock of a slot is held for memory operations only: a step   *)
(* that leaves a worker holding the lock arms and cancels none of its       *)
(* timers, and a worker that is between handlers holds no lock.             *)
C22_Returned ==
    \A p \in Peers : \A w \in Workers :
        (alive[w] /\ pc[w] = "idle") => shm[p].lock # w

C22_LockedStep ==
    \A w \in Workers :
        (alive[w] /\ pc'[w] = "locked")
            => \A p \in Peers :
                   <<stat'[w][p].health_ev, stat'[w][p].ownership_ev,
                     stat'[w][p].read_ev>> = TimersOf(w, p)

C22_LockForMemoryOnly == [] C22_Returned /\ [][C22_LockedStep]_vars

(* A worker holds the lock of a slot it has just taken, and its health_ev   *)
(* timer is already armed.                                                  *)
C22_ArmedUnderLock ==
    \E p \in Peers : \E w \in Workers :
        /\ InSection(w, p) /\ Running(w)
        /\ shm[p].lock = w /\ shm[p].owner = w /\ shm[p].action_time = now
        /\ TimersOf(w, p) = <<now + conf[p].health_delay, NoTimer, NoTimer>>

----------------------------------------------------------------------------
(* The effect of a claim attempt (specification Spec).                      *)

(* C23: a claim attempt of worker w on a slot it does not own takes the     *)
(* slot exactly when now - action_time >= (delay + timeout) * 3; it then    *)
(* sets owner to w, action_time to now, the private state to WAITING and    *)
(* arms health_ev with delay, and nothing else.  Otherwise it changes no    *)
(* field of the slot but the lock, and on return arms ownership_ev with     *)
(* delay * 10.                                                              *)
C23_LockStep ==
    \A p \in Peers : \A w \in Workers :
        (alive[w] /\ pc[w] = "spin" /\ pc'[w] = "locked" /\ cur[w] = p
            /\ shm[p].owner # w)
        => IF now - shm[p].action_time >= (conf[p].health_delay + conf[p].health_timeout) * 3
           THEN /\ shm'[p] = [shm[p] EXCEPT !.owner = w, !.action_time = now,
                                            !.lock = w]
                /\ stat'[w] = [stat[w] EXCEPT
                                  ![p] = [@ EXCEPT !.state = NGX_HEALTH_WAITING,
                                                   !.health_ev = now + conf[p].health_delay]]
                /\ i_own_it'[w]
           ELSE /\ shm'[p] = [shm[p] EXCEPT !.lock = w]
                /\ stat'[w] = stat[w]
                /\ ~i_own_it'[w]

C23_ReturnStep ==
    \A p \in Peers : \A w \in Workers :
        (alive[w] /\ pc[w] = "locked" /\ pc'[w] = "idle" /\ cur[w] = p /\ alive'[w])
        => /\ shm'[p] = [shm[p] EXCEPT !.lock = NoPid]
           /\ stat'[w] = IF i_own_it[w] THEN stat[w]
                         ELSE [stat[w] EXCEPT
                                  ![p].ownership_ev = now + conf[p].health_delay * 10]

C23_ClaimAttempt == [][C23_LockStep /\ C23_ReturnStep]_vars

(* A worker's attempt on a slot owned by another worker was refused one     *)
(* millisecond before the staleness deadline and has returned: the slot is  *)
(* as the owner left it and the next attempt is delay * 10 ahead.           *)
C23_RefusedAtTheEdge ==
    \E p \in Peers : \E w, o \in Workers :
        /\ w # o
        /\ Idle(w)
        /\ shm[p].owner = o /\ shm[p].lock = NoPid
        /\ now - shm[p].action_time = StaleAfter(conf[p]) - 1
        /\ stat[w][p].ownership_ev = now + conf[p].health_delay * 10
        /\ stat[w][p].health_ev = NoTimer

----------------------------------------------------------------------------
(* The write side (specification SpecProbe).                                *)

(* C24: a writable notification in a state other than SENDING_CHECK sends   *)
(* nothing and leaves the private entry and the shared slot as they are.    *)
(* In SENDING_CHECK the state becomes READING_STAT_LINE exactly when        *)
(* send_pos reaches the length of the request, and a send that fails or     *)
(* sends zero bytes finishes the probe as BAD_CONN.                         *)
C24_AtEveryCall ==
    \A w \in Workers : \A p \in Peers :
        (alive[w] /\ stat[w][p].conn) =>
            \A snd \in SendResults(stat[w][p], conf[p]) :
                LET r == write_handler(stat[w], shm[p], p, conf[p], quit[w], now, snd)
                    len == conf[p].health_send_len
                IN  IF stat[w][p].state # NGX_HEALTH_SENDING_CHECK
                    THEN /\ snd.n = 0
                         /\ r = [wt |-> stat[w], sh |-> shm[p], fin |-> NoVerdict]
                    ELSE IF snd.end = "error"
                    THEN /\ r.fin = NGX_HEALTH_BAD_CONN
                         /\ r.sh.down_code = NGX_HEALTH_BAD_CONN
                         /\ ~r.wt[p].conn
                         /\ r.wt[p].state = NGX_HEALTH_WAITING
                    ELSE /\ r.fin = NoVerdict
                         /\ r.wt[p].conn
                         /\ r.wt[p].send_pos = stat[w][p].send_pos + snd.n
                         /\ r.wt[p].state =
                               IF r.wt[p].send_pos = len
                               THEN NGX_HEALTH_READING_STAT_LINE
                               ELSE NGX_HEALTH_SENDING_CHECK
                         /\ r.sh = IF snd.n > 0 THEN [shm[p] EXCEPT !.action_time = now]
                                   ELSE shm[p]

C24_SendStep ==
    \A w \in Workers : \A p \in Peers :
        /\ (alive[w] /\ stat[w][p].conn /\ stat'[w][p].conn
               /\ stat'[w][p].send_pos # stat[w][p].send_pos)
           => /\ stat[w][p].state = NGX_HEALTH_SENDING_CHECK
              /\ stat'[w][p].send_pos > stat[w][p].send_pos
        /\ (alive[w] /\ stat[w][p].conn /\ stat'[w][p].conn
               /\ stat[w][p].state = NGX_HEALTH_SENDING_CHECK)
           => (stat'[w][p].state = NGX_HEALTH_READING_STAT_LINE
                  <=> stat'[w][p].send_pos = conf[p].health_send_len)
        /\ (alive[w] /\ stat[w][p].conn /\ stat'[w][p].conn
               /\ stat[w][p].state # NGX_HEALTH_SENDING_CHECK)
           => stat'[w][p].send_pos = stat[w][p].send_pos

C24_WriteSide == [] C24_AtEveryCall /\ [][C24_SendStep]_vars

(* The whole request has gone out, its last bytes in a later millisecond    *)
(* than the connect, and the state is READING_STAT_LINE: the next writable  *)
(* notification finds a state other than SENDING_CHECK.                     *)
C24_RequestSent ==
    \E p \in Peers : \E w \in Workers :
        /\ Idle(w) /\ stat[w][p].conn
        /\ stat[w][p].state = NGX_HEALTH_READING_STAT_LINE
        /\ stat[w][p].send_pos = conf[p].health_send_len
        /\ stat[w][p].check_start_time < now
        /\ shm[p].action_time = now
        /\ stat[w][p].rbuf = <<>>

----------------------------------------------------------------------------
(* The read side (specification SpecRecv).                                  *)

(* What a second c->recv of the same notification reports when the         *)
(* connection has failed, or when the first one has taken the rest of the   *)
(* peer's answer and the peer has closed the connection.                    *)
PendingStop(st, cf, n) ==
    RecvEnd(st, cf, n) \cup {[kind |-> "error", bytes |-> <<>>]}

(* C25: on one readable notification the read handler goes on calling       *)
(* c->recv after a recv that returned bytes, until recv reports would-block,*)
(* an error or a close or the buffer is full.  So when the recv that        *)
(* follows the bytes reports a close or an error, the handler has seen it   *)
(* in this notification and what it leaves is what the read of that close   *)
(* or error leaves: it does not return waiting for another notification.    *)
C25_ReceivesUntilStop ==
    \A w \in Workers : \A p \in Peers :
        (alive[w] /\ stat[w][p].conn /\ ~timed_out(stat[w][p], conf[p], now)) =>
            \A rcv \in RecvData(stat[w][p], conf[p], net[w][p]) :
                LET wt1 == [stat[w] EXCEPT ![p].rbuf = @ \o rcv.bytes]
                    n1  == [net[w][p] EXCEPT !.off = @ + Len(rcv.bytes)]
                    r   == read_handler(stat[w], shm[p], p, conf[p], quit[w], now, rcv)
                IN  Len(wt1[p].rbuf) < conf[p].health_buffersize
                        => \A nxt \in PendingStop(wt1[p], conf[p], n1) :
                               r.fin # NoVerdict

(* The read handler has taken the whole answer of the peer with one recv,   *)
(* the recognizer wants more, the buffer has room, and the handler has      *)
(* returned with the connection open: it has not called recv again.         *)
C25_ReturnedAfterOneRecv ==
    \E p \in Peers : \E w \in Workers :
        /\ Idle(w) /\ stat[w][p].conn
        /\ stat[w][p].state \in {NGX_HEALTH_READING_STAT_LINE, NGX_HEALTH_READING_STAT_CODE,
                                 NGX_HEALTH_READING_HEADER, NGX_HEALTH_HEADER_ALMOST_DONE,
                                 NGX_HEALTH_READING_BODY}
        /\ stat[w][p].rbuf # <<>>
        /\ stat[w][p].read_pos = Len(stat[w][p].rbuf)
        /\ Len(stat[w][p].rbuf) < conf[p].health_buffersize
        /\ net[w][p].off = Len(net[w][p].data)
        /\ shm[p].action_time = now

----------------------------------------------------------------------------
(* The cursors of a probe (specification SpecCursors): the probes of one    *)
(* worker for one peer whose expected body has two bytes and that answers   *)
(* 200 with a body that is a prefix of the expected one, the expected one,  *)
(* or the expected one and a byte more.                                     *)

ConfCursors ==
    [ConfInit EXCEPT !.health_expected = [unset |-> FALSE, data |-> <<CHp, CHX>>],
                     !.answers = {Head200 \o <<CHp>>, Head200 \o <<CHp, CHX>>,
                                  Head200 \o <<CHp, CHX, CHp>>}]

InitCursors == InitWith({1}, [p \in {1} |-> ConfCursors])

SpecCursors == InitCursors /\ [][NextProbe]_vars

(* C26: in every reachable state 0 <= send_pos <= length of the request,    *)
(* 0 <= read_pos <= bytes received <= buffer size and 0 <= body_read_pos <= *)
(* length of the expected body; read_pos does not decrease while the        *)
(* connection of a probe is open.                                           *)
C26_InBounds ==
    \A w \in Workers : \A p \in Peers :
        /\ 0 <= stat[w][p].send_pos
        /\ stat[w][p].send_pos <= conf[p].health_send_len
        /\ 0 <= stat[w][p].read_pos
        /\ stat[w][p].read_pos <= Len(stat[w][p].rbuf)
        /\ Len(stat[w][p].rbuf) <= conf[p].health_buffersize
        /\ 0 <= stat[w][p].body_read_pos
        /\ stat[w][p].body_read_pos <= Len(conf[p].health_expected.data)

C26_ReadStep ==
    \A w \in Workers : \A p \in Peers :
        (alive[w] /\ stat[w][p].conn /\ stat'[w][p].conn)
            => /\ stat'[w][p].read_pos >= stat[w][p].read_pos
               /\ stat'[w][p].check_start_time = stat[w][p].check_start_time

C26_Cursors == [] C26_InBounds /\ [][C26_ReadStep]_vars

(* A probe in the middle: the request is sent, the answer is read up to the *)
(* first byte of the body, and one byte of the expected body is still to    *)
(* come.                                                                    *)
C26_MidBody ==
    \E p \in Peers : \E w \in Workers :
        /\ Idle(w) /\ stat[w][p].conn
        /\ stat[w][p].state = NGX_HEALTH_READING_BODY
        /\ stat[w][p].send_pos = conf[p].health_send_len
        /\ stat[w][p].read_pos = Len(Head200) + 1
        /\ stat[w][p].read_pos = Len(stat[w][p].rbuf)
        /\ stat[w][p].body_read_pos = 1
        /\ stat[w][p].body_read_pos < Len(conf[p].health_expected.data)

----------------------------------------------------------------------------
(* One probe at a time in a worker (specification Spec).                    *)

(* C27: in one worker, while health_ev of a peer is armed the private state *)
(* of the peer is WAITING and no connection of an earlier probe is open, so *)
(* the timer never fires into a probe in flight; a probe starts only from   *)
(* WAITING with no connection open, and takes the timer away.               *)
C27_ArmedOnlyBetweenProbes ==
    \A w \in Workers : \A p \in Peers :
        (alive[w] /\ stat[w][p].health_ev # NoTimer)
            => /\ stat[w][p].state = NGX_HEALTH_WAITING
               /\ ~stat[w][p].conn
               /\ ~InFlight(w, p)

C27_BeginStep ==
    \A w \in Workers : \A p \in Peers :
        (alive[w] /\ alive'[w] /\ stat'[w][p].conn
            /\ stat'[w][p].state = NGX_HEALTH_SENDING_CHECK
            /\ stat[w][p].state # NGX_HEALTH_SENDING_CHECK)
        => /\ stat[w][p].state = NGX_HEALTH_WAITING
           /\ ~stat[w][p].conn
           /\ Due(stat[w][p].health_ev)
           /\ stat'[w][p].health_ev = NoTimer

C27_OneProbeAtATime == [] C27_ArmedOnlyBetweenProbes /\ [][C27_BeginStep]_vars

(* The health_ev timer of a worker is due after a probe of its own that has *)
(* finished: the connection is closed and the state is WAITING.             *)
C27_DueAfterProbe ==
    \E p \in Peers : \E w \in Workers :
        /\ Idle(w) /\ shm[p].owner = w
        /\ Due(stat[w][p].health_ev)
        /\ hist[p].last # NoVerdict
        /\ shm[p].concurrent >= 1
        /\ stat[w][p].read_ev = NoTimer

----------------------------------------------------------------------------
(* One verdict per probe (specification SpecProbe).                         *)

(* The fields of a slot that the verdict filter writes. *)
VerdictOf(sh) == <<sh.last_down, sh.concurrent, sh.since, sh.down, sh.down_code>>

(* The run of like verdicts in slot b is the run in slot a after one more   *)
(* verdict.                                                                 *)
OneVerdictMore(a, b) ==
    \/ b.last_down = a.last_down /\ b.concurrent = a.concurrent + 1
    \/ b.last_down # a.last_down /\ b.concurrent = 1

(* C28: a probe is finished at most once.  The verdict filter writes the    *)
(* slot only in a step that closes the open connection of a probe, it moves *)
(* the run of verdicts by one verdict, and leaves the state WAITING; a      *)
(* worker with no connection open is in state WAITING (or has not owned the *)
(* peer yet), and no step writes the slot of a peer outside a claim unless  *)
(* a connection to the peer is open before it or after it.                  *)
C28_Closed ==
    \A w \in Workers : \A p \in Peers :
        (alive[w] /\ ~stat[w][p].conn)
            => /\ stat[w][p].state \in {NGX_HEALTH_UNINIT_STATE, NGX_HEALTH_WAITING}
               /\ stat[w][p].read_ev = NoTimer

C28_FilterStep ==
    \A p \in Peers :
        VerdictOf(shm'[p]) # VerdictOf(shm[p])
            => /\ OneVerdictMore(shm[p], shm'[p])
               /\ hist'[p].last = shm'[p].down_code
               /\ \E w \in Workers :
                      /\ alive[w] /\ stat[w][p].conn
                      /\ \/ ~alive'[w]
                         \/ /\ ~stat'[w][p].conn
                            /\ stat'[w][p].state = NGX_HEALTH_WAITING

C28_SlotStep ==
    \A p \in Peers :
        ProbeWrite(p)
            => \E w \in Workers :
                   alive[w] /\ (stat[w][p].conn \/ stat'[w][p].conn)

C28_FinishedOnce ==
    [] C28_Closed /\ [][C28_FilterStep /\ C28_SlotStep]_vars

(* A second probe has been finished with the verdict of the first: the run  *)
(* is two verdicts long, the connection is closed, the state is WAITING and *)
(* the next probe is armed.                                                 *)
C28_SecondVerdict ==
    \E p \in Peers : \E w \in Workers :
        /\ Idle(w) /\ ~stat[w][p].conn
        /\ stat[w][p].state = NGX_HEALTH_WAITING
        /\ shm[p].concurrent = 2
        /\ shm[p].down_code = NGX_HEALTH_OK
        /\ hist[p].bad = <<FALSE, FALSE>>
        /\ stat[w][p].health_ev = now + conf[p].health_delay
====
